---- MODULE Spec2Model ----
(***************************************************************************)
(* A model of the globe-news post-processor.                               *)
(*                                                                         *)
(*   SpecArticle  ArticlePostProcessor.process_article on one article      *)
(*                (post_processor.py) with the CuratedGlobeArticle and     *)
(*                FailedGlobeArticle constructors of models.py.            *)
(*   SpecBatch    GlobeNewsPostProcessor._process_batch (__init__.py): the *)
(*                loop over a batch, partitioning curated / failed.        *)
(*   SpecLLM      AzureOpenAIHandler.process_article_batch                 *)
(*                (azure_openai.py): the thread pool, the tasks running    *)
(*                process_single_article, and the as_completed loop.       *)
(*   SpecTranslate  ArticleTranslator.translate_async (translator.py): the  *)
(*                request loop with its backoff; SpecTranslateLive adds    *)
(*                the fairness of the event loop.                          *)
(*   SpecMongo    one call of get_unprocessed_articles or update_articles  *)
(*                of MongoHandler (mongo_handler.py) against the articles  *)
(*                collection.                                              *)
(*   SpecMove     one call of MongoHandler.move_failed_articles against    *)
(*                the articles and failed_articles collections.            *)
(*   SpecPool     the thread pool of process_article_batch alone, for     *)
(*                batches larger than the pool: every invocation fails     *)
(*                with an error that is not a rate limit.                  *)
(*   SpecDriver   GlobeNewsPostProcessor.process_pending_articles          *)
(*                (__init__.py): the loop of fetch, _process_batch,        *)
(*                update_articles and move_failed_articles on one store.   *)
(*                                                                         *)
(* The enrichment model, the translation service and the clock are the     *)
(* environment: what each call returns or raises is drawn with \E (or, for *)
(* process_article as a pure function, drawn in Init as the record env).   *)
(***************************************************************************)
EXTENDS Integers, Sequences, FiniteSets, TLC

VARIABLES
    \* SpecArticle: one call of ArticlePostProcessor.process_article
    article,            \* the GlobeArticle passed in
    env,                \* what the handler and the translator answer
    result,             \* what process_article returned (or "pending")
    apc,                \* "call" | "returned"
    \* SpecBatch: one call of GlobeNewsPostProcessor._process_batch
    articles,           \* the input batch
    idx,                \* position of the for loop (1-based, next to process)
    curated_articles,   \* list being built
    failed_articles,    \* list being built
    total_token_usage,  \* accumulator
    batch_env,          \* history: the environment each iteration met
    bpc,                \* "loop" | "returned" | "raised"
    \* SpecLLM: one call of AzureOpenAIHandler.process_article_batch
    llm_articles,       \* the input list of article dicts
    task,               \* per submitted future: its state
    successful,         \* successful_articles
    failed,             \* failed_articles
    total_usage,        \* shared accumulator
    usage_lock,         \* the Lock(): 0 when free, else the task that holds it
    collected,          \* futures the as_completed loop has consumed
    lpc,                \* "start" | "collect" | "returned" | "raised"
    \* SpecTranslate: one call of ArticleTranslator.translate_async
    tr_text,            \* the text passed in
    tr_backoff,         \* the local variable backoff
    tr_sleeps,          \* history: the argument of every asyncio.sleep
    tr_responses,       \* history: what the service answered to every client.post
    tr_tokens,          \* history: tokens translate_async took from a rate limiter
    tr_result,          \* what the call returned or raised (or "pending")
    tpc,                \* "request" | "sleep" | "returned" | "raised"
    \* SpecMongo: one call of a MongoHandler method
    mongo_config,       \* the attributes of the config object the handler holds
    db_articles,        \* the articles collection: _id -> document
    db_failed,          \* the failed_articles collection: _id -> document
    db_before,          \* history: both collections when the call began
    m_call,             \* the method called and its arguments
    m_idx,              \* position of the for loop of update_articles
    updated_ids,        \* the list update_articles builds
    moved_ids,          \* the list move_failed_articles builds
    m_article,          \* the local variable article of move_failed_articles
    m_deleted,          \* history: the _ids a delete_one of the call removed
    \* SpecDriver: one call of GlobeNewsPostProcessor.process_pending_articles
    d_batch_size,       \* self._config.BATCH_SIZE
    d_articles,         \* the batch the last fetch returned
    d_curated,          \* curated_articles of _process_batch
    d_failed,           \* failed_articles of _process_batch
    d_seen,             \* history: the _ids the fetches of the run have returned
    d_again,            \* history: the _ids a fetch returned after an earlier fetch had
    d_clean,            \* history: no storage operation of the run has failed
    dpc,                \* "fetch" | "process" | "update" | "updating" | "moving"
                        \* | "returned" | "raised"
    m_fault,            \* history: the storage error the call met, or "none"
    m_return,           \* what the call returned or raised (or "pending")
    mpc                 \* "ready" | "update_loop" | "returned" | "raised"

articleVars == <<article, env, result, apc>>
batchVars == <<articles, idx, curated_articles, failed_articles,
               total_token_usage, batch_env, bpc>>
llmVars == <<llm_articles, task, successful, failed, total_usage, usage_lock, collected, lpc>>
translateVars == <<tr_text, tr_backoff, tr_sleeps, tr_responses, tr_tokens,
                   tr_result, tpc>>
moveVars == <<moved_ids, m_article, m_deleted>>
mongoVars == <<mongo_config, db_articles, db_failed, db_before, m_call, m_idx,
               updated_ids, m_fault, m_return, mpc, moveVars>>
driverVars == <<d_batch_size, d_articles, d_curated, d_failed, d_seen, d_again, d_clean, dpc>>
extVars == <<translateVars, mongoVars, driverVars>>
vars == <<articleVars, batchVars, llmVars, extVars>>

-----------------------------------------------------------------------------
(* Bounds of the model *)

\* longest related_countries list the enrichment returns in SpecArticle
MaxCountries == 3
\* largest batch handed to _process_batch
MaxBatch == 3
\* largest list handed to process_article_batch
MaxArticles == 2
\* most rate-limit answers the translation service gives to one call before it
\* answers anything else
Max429 == 7
\* most documents in the articles collection (their _id is 1..MaxDocs)
MaxDocs == 2
\* largest list handed to process_article_batch in SpecPool: more than the
\* pool's fixed cap of 10 workers
MaxPool == 11

-----------------------------------------------------------------------------
(* Data *)

\* Python's None
None == "None"

Countries == {"GB", "US", "CA"}
Languages == {None, "en", "cs"}

\* Python's None in a list-typed field (TLC cannot compare a string with a sequence)
NoneList == <<"None">>

\* bool(x) of an Optional[str] and of an Optional[List]
Truthy(x) == x # None /\ x # ""
TruthyList(x) == x # NoneList /\ x # <<>>

RECURSIVE SeqsUpTo(_, _)
SeqsUpTo(S, n) ==
    IF n = 0 THEN {<<>>}
    ELSE LET shorter == SeqsUpTo(S, n - 1)
         IN shorter \cup {Append(s, x) : s \in {t \in shorter : Len(t) = n - 1}, x \in S}

Range(s) == {s[i] : i \in 1..Len(s)}

\* GlobeArticle: the fields the pipeline reads or writes
GlobeArticle(id, language, origin_country) ==
    [id |-> id,
     title |-> "title",
     title_translated |-> None,
     description |-> "description",
     description_translated |-> None,
     language |-> language,
     content |-> "content",
     origin_country |-> origin_country,
     keywords |-> <<"scraped">>,
     schema_version |-> "1.1",
     date_published |-> 1,
     date_scraped |-> 2,
     category |-> None,
     related_countries |-> NoneList,
     post_processed |-> FALSE]

\* LLMArticleData
LLMArticleData(category, related_countries, keywords) ==
    [category |-> category, related_countries |-> related_countries, keywords |-> keywords]

\* Python exception classes that occur, and which of them `except Exception` catches
ExceptionClasses == {"Exception", "AzureOpenAIHandlerError", "ArticleTranslatorError"}

Raised(cls, message) == [raised |-> TRUE, cls |-> cls, message |-> message]
Returned(value) == [raised |-> FALSE, value |-> value]

-----------------------------------------------------------------------------
(* models.py: the constructors *)

\* the list comprehension of remove_origin_country
RECURSIVE FilterOut(_, _)
FilterOut(countries, origin) ==
    IF countries = <<>> THEN <<>>
    ELSE IF Head(countries) # origin
         THEN <<Head(countries)>> \o FilterOut(Tail(countries), origin)
         ELSE FilterOut(Tail(countries), origin)

\* a slip that drops only the first occurrence of the origin country
remove_origin_country_FirstOnly(model) ==
    LET RECURSIVE DropFirst(_)
        DropFirst(cs) == IF cs = <<>> THEN <<>>
                         ELSE IF Head(cs) = model.origin_country THEN Tail(cs)
                         ELSE <<Head(cs)>> \o DropFirst(Tail(cs))
    IN [model EXCEPT !.related_countries = DropFirst(model.related_countries)]

\* CuratedGlobeArticle.remove_origin_country (model_validator, mode='after')
remove_origin_country(model) ==
    IF Truthy(model.origin_country) /\ TruthyList(model.related_countries)
    THEN [model EXCEPT !.related_countries =
                           FilterOut(model.related_countries, model.origin_country)]
    ELSE model

\* CuratedGlobeArticle.set_post_processed_to_true (field_validator, mode='before')
set_post_processed_to_true(v) == TRUE

\* CuratedGlobeArticle(**fields): field validators, then the model validator
CuratedGlobeArticle(fields) ==
    remove_origin_country(
        [fields EXCEPT !.post_processed = set_post_processed_to_true(fields.post_processed)])

\* FailedGlobeArticle(**article.model_dump(), failure_reason=...)
FailedGlobeArticle(dump, failure_reason) ==
    [id |-> dump.id,
     title |-> dump.title,
     title_translated |-> dump.title_translated,
     description |-> dump.description,
     description_translated |-> dump.description_translated,
     language |-> dump.language,
     content |-> dump.content,
     origin_country |-> dump.origin_country,
     keywords |-> dump.keywords,
     schema_version |-> dump.schema_version,
     date_published |-> dump.date_published,
     date_scraped |-> dump.date_scraped,
     category |-> dump.category,
     related_countries |-> dump.related_countries,
     post_processed |-> dump.post_processed,
     failure_reason |-> failure_reason]

-----------------------------------------------------------------------------
(* post_processor.py: ArticlePostProcessor *)

\* the translation service's answer to translate(text, from_lang) when it succeeds
TranslatedText(text) == "en:" \o text

\* a call record of self._translator.translate(text, from_lang=...)
TranslateCall(text, from_lang) == [text |-> text, from_lang |-> from_lang]

\* a slip that tests only for a set language, and so translates English too
_needs_translation_AnySet(a) == Truthy(a.language)

\* the condition of _translate_if_needed
_needs_translation(a) == a.language # "en" /\ Truthy(a.language)

\* a slip that returns the title's translation for both fields
_translate_if_needed_TitleTwice(a, e) ==
    IF _needs_translation(a)
    THEN LET c1 == TranslateCall(a.title, a.language)
             c2 == TranslateCall(a.description, a.language)
             t == e.translate[a.title]
             d == e.translate[a.description]
         IN IF t.raised THEN [raised |-> TRUE, exc |-> t, calls |-> <<c1>>]
            ELSE IF d.raised THEN [raised |-> TRUE, exc |-> d, calls |-> <<c1, c2>>]
            ELSE [raised |-> FALSE, title |-> t.value, description |-> t.value,
                  calls |-> <<c1, c2>>]
    ELSE [raised |-> FALSE, title |-> a.title, description |-> a.description,
          calls |-> <<>>]

\* a slip that swallows a failed description translation and keeps the original
_translate_if_needed_IgnoreDescError(a, e) ==
    IF _needs_translation(a)
    THEN LET c1 == TranslateCall(a.title, a.language)
             c2 == TranslateCall(a.description, a.language)
             t == e.translate[a.title]
             d == e.translate[a.description]
         IN IF t.raised THEN [raised |-> TRUE, exc |-> t, calls |-> <<c1>>]
            ELSE [raised |-> FALSE, title |-> t.value,
                  description |-> IF d.raised THEN a.description ELSE d.value,
                  calls |-> <<c1, c2>>]
    ELSE [raised |-> FALSE, title |-> a.title, description |-> a.description,
          calls |-> <<>>]

\* ArticlePostProcessor._translate_if_needed: the two calls are made one after the
\* other; an exception of the first leaves the method before the second is made
_translate_if_needed(a, e) ==
    IF _needs_translation(a)
    THEN LET c1 == TranslateCall(a.title, a.language)
             c2 == TranslateCall(a.description, a.language)
             t == e.translate[a.title]
             d == e.translate[a.description]
         IN IF t.raised THEN [raised |-> TRUE, exc |-> t, calls |-> <<c1>>]
            ELSE IF d.raised THEN [raised |-> TRUE, exc |-> d, calls |-> <<c1, c2>>]
            ELSE [raised |-> FALSE, title |-> t.value, description |-> d.value,
                  calls |-> <<c1, c2>>]
    ELSE [raised |-> FALSE, title |-> a.title, description |-> a.description,
          calls |-> <<>>]

\* a slip that stores the translations in the title and the description
_create_curated_article_InPlace(a, llm_result, translated_title, translated_description) ==
    CuratedGlobeArticle(
        [id |-> a.id,
         title |-> translated_title,
         description |-> translated_description,
         language |-> a.language,
         content |-> a.content,
         origin_country |-> a.origin_country,
         schema_version |-> a.schema_version,
         date_published |-> a.date_published,
         date_scraped |-> a.date_scraped,
         post_processed |-> a.post_processed,
         category |-> llm_result.category,
         related_countries |-> llm_result.related_countries,
         keywords |-> llm_result.keywords,
         title_translated |-> translated_title,
         description_translated |-> translated_description])

\* ArticlePostProcessor._create_curated_article
_create_curated_article(a, llm_result, translated_title, translated_description) ==
    CuratedGlobeArticle(
        [id |-> a.id,
         title |-> a.title,
         description |-> a.description,
         language |-> a.language,
         content |-> a.content,
         origin_country |-> a.origin_country,
         schema_version |-> a.schema_version,
         date_published |-> a.date_published,
         date_scraped |-> a.date_scraped,
         post_processed |-> a.post_processed,
         category |-> llm_result.category,
         related_countries |-> llm_result.related_countries,
         keywords |-> llm_result.keywords,
         title_translated |-> translated_title,
         description_translated |-> translated_description])

\* a handler that catches only the enrichment handler's own error class
ExceptClause_HandlerErrorOnly == {"AzureOpenAIHandlerError"}

\* the classes `except Exception` of process_article catches
ExceptClause == ExceptionClasses

\* the except block of process_article, or the exception leaving the method
_handle(a, exc, llm_calls, translate_calls) ==
    IF exc.cls \in ExceptClause
    THEN [kind |-> "FailedGlobeArticle",
          value |-> FailedGlobeArticle(a, exc.message),
          llm_calls |-> llm_calls, translate_calls |-> translate_calls]
    ELSE [kind |-> "raised", cls |-> exc.cls, message |-> exc.message,
          llm_calls |-> llm_calls, translate_calls |-> translate_calls]

\* ArticlePostProcessor.process_article: e.llm is what
\* self._llm_handler.process_article(article.model_dump()) does, e.translate what
\* self._translator.translate does for each text.  The result carries the calls
\* that were made, in order.
process_article(a, e) ==
    LET llm == e.llm
    IN IF llm.raised THEN _handle(a, llm, <<a.id>>, <<>>)
       ELSE LET tr == _translate_if_needed(a, e)
            IN IF tr.raised
               THEN _handle(a, tr.exc, <<a.id>>, tr.calls)
               ELSE [kind |-> "tuple",
                     value |-> _create_curated_article(a, llm.value.parsed,
                                                       tr.title, tr.description),
                     token_usage |-> llm.value.token_usage,
                     llm_calls |-> <<a.id>>, translate_calls |-> tr.calls]

\* isinstance(result, tuple)
IsTuple(r) == r.kind = "tuple"

-----------------------------------------------------------------------------
(* The environment of process_article *)

TokenUsage(i, o) == [input_tokens |-> i, output_tokens |-> o]

\* what self._llm_handler.process_article may raise
LLMErrors ==
    {Raised("AzureOpenAIHandlerError", "Max retries reached for rate limit: 429"),
     Raised("Exception", "Test error")}

\* what self._llm_handler.process_article may do: return (LLMArticleData, usage)
\* or raise
LLMOutcomes(countryLists, usages, errors) ==
    {Returned([parsed |-> LLMArticleData("TECHNOLOGY", rc, <<"k1", "k2">>),
               token_usage |-> u]) : rc \in countryLists, u \in usages}
    \cup errors

\* what self._translator.translate(text, ...) may do: return the translation or raise
TranslatorOutcomes(text) ==
    {Returned(TranslatedText(text)),
     Raised("ArticleTranslatorError", "Translation failed: " \o text)}

Texts == {"title", "description"}

TranslatorBehaviours ==
    {f \in [Texts -> UNION {TranslatorOutcomes(t) : t \in Texts}] :
        \A t \in Texts : f[t] \in TranslatorOutcomes(t)}

Envs(countryLists, usages, errors) ==
    [llm : LLMOutcomes(countryLists, usages, errors), translate : TranslatorBehaviours]

\* the environments of SpecArticle: every list of countries up to MaxCountries
ArticleEnvs == Envs(SeqsUpTo(Countries, MaxCountries), {TokenUsage(100, 50)}, LLMErrors)

\* the environments of SpecBatch: one list of countries, two usage reports, one error
BatchEnvs ==
    Envs({<<"US", "GB", "CA">>}, {TokenUsage(100, 50), TokenUsage(7, 3)},
         {Raised("Exception", "Test error")})

-----------------------------------------------------------------------------
(* Values of the variables a specification does not use *)

ArticleIdle ==
    /\ article = GlobeArticle(0, None, "GB")
    /\ env = <<>>
    /\ result = [kind |-> "pending"]
    /\ apc = "idle"

BatchIdle ==
    /\ articles = <<>>
    /\ idx = 0
    /\ curated_articles = <<>>
    /\ failed_articles = <<>>
    /\ total_token_usage = TokenUsage(0, 0)
    /\ batch_env = <<>>
    /\ bpc = "idle"

LLMIdle ==
    /\ llm_articles = <<>>
    /\ task = <<>>
    /\ successful = <<>>
    /\ failed = <<>>
    /\ total_usage = TokenUsage(0, 0)
    /\ usage_lock = 0
    /\ collected = {}
    /\ lpc = "idle"

TranslateIdle ==
    /\ tr_text = ""
    /\ tr_backoff = 0
    /\ tr_sleeps = <<>>
    /\ tr_responses = <<>>
    /\ tr_tokens = 0
    /\ tr_result = [kind |-> "pending"]
    /\ tpc = "idle"

MongoIdle ==
    /\ mongo_config = {}
    /\ db_articles = <<>>
    /\ db_failed = <<>>
    /\ db_before = <<>>
    /\ m_call = [op |-> "none"]
    /\ m_idx = 0
    /\ updated_ids = <<>>
    /\ moved_ids = <<>>
    /\ m_article = [none |-> TRUE]
    /\ m_deleted = {}
    /\ m_fault = "none"
    /\ m_return = [kind |-> "pending"]
    /\ mpc = "idle"

DriverIdle ==
    /\ d_batch_size = 0
    /\ d_articles = <<>>
    /\ d_curated = <<>>
    /\ d_failed = <<>>
    /\ d_seen = {}
    /\ d_again = {}
    /\ d_clean = TRUE
    /\ dpc = "idle"

ExtIdle == TranslateIdle /\ MongoIdle /\ DriverIdle

-----------------------------------------------------------------------------
(* SpecArticle: one call of ArticlePostProcessor.process_article *)

InitArticle ==
    /\ article \in {GlobeArticle(1, l, c) : l \in Languages, c \in {"GB", "US"}}
    /\ env \in ArticleEnvs
    /\ result = [kind |-> "pending"]
    /\ apc = "call"
    /\ BatchIdle
    /\ LLMIdle
    /\ ExtIdle

\* the call and its return (or the exception leaving it)
ProcessArticle ==
    /\ apc = "call"
    /\ result' = process_article(article, env)
    /\ apc' = IF result'.kind = "raised" THEN "raised" ELSE "returned"
    /\ UNCHANGED <<article, env, batchVars, llmVars, extVars>>

NextArticle == ProcessArticle

SpecArticle == InitArticle /\ [][NextArticle]_vars

-----------------------------------------------------------------------------
(* SpecBatch: one call of GlobeNewsPostProcessor._process_batch *)

\* the batches: articles 1..n, each English or Czech
Batches ==
    UNION {{[i \in 1..n |-> GlobeArticle(i, langs[i], "GB")] : langs \in [1..n -> {"en", "cs"}]}
           : n \in 0..MaxBatch}

InitBatch ==
    /\ articles \in Batches
    /\ idx = 1
    /\ curated_articles = <<>>
    /\ failed_articles = <<>>
    /\ total_token_usage = TokenUsage(0, 0)
    /\ batch_env = <<>>
    /\ bpc = "loop"
    /\ ArticleIdle
    /\ LLMIdle
    /\ ExtIdle

\* an assignment in place of the addition: the last article's usage is kept
Accumulate_Overwrite(total, usage) == usage

\* total_token_usage[k] += token_usage[k] for both counters
Accumulate(total, usage) ==
    TokenUsage(total.input_tokens + usage.input_tokens,
               total.output_tokens + usage.output_tokens)

\* the policy of an earlier revision: the first failed article ends the batch
ProcessBatchIteration_StopOnFirstError ==
    /\ bpc = "loop"
    /\ idx <= Len(articles)
    /\ \E e \in BatchEnvs :
        LET r == process_article(articles[idx], e)
        IN /\ batch_env' = Append(batch_env, e)
           /\ IF r.kind = "raised"
              THEN /\ bpc' = "raised"
                   /\ UNCHANGED <<idx, curated_articles, failed_articles, total_token_usage>>
              ELSE IF IsTuple(r)
              THEN /\ curated_articles' = Append(curated_articles, r.value)
                   /\ total_token_usage' = Accumulate(total_token_usage, r.token_usage)
                   /\ idx' = idx + 1
                   /\ UNCHANGED <<failed_articles, bpc>>
              ELSE /\ failed_articles' = Append(failed_articles, r.value)
                   /\ idx' = Len(articles) + 1
                   /\ UNCHANGED <<curated_articles, total_token_usage, bpc>>
    /\ UNCHANGED <<articles, articleVars, llmVars, extVars>>

\* a slip that logs a failed article and forgets to append it
ProcessBatchIteration_DropFailed ==
    /\ bpc = "loop"
    /\ idx <= Len(articles)
    /\ \E e \in BatchEnvs :
        LET r == process_article(articles[idx], e)
        IN /\ batch_env' = Append(batch_env, e)
           /\ IF r.kind = "raised"
              THEN /\ bpc' = "raised"
                   /\ UNCHANGED <<idx, curated_articles, failed_articles, total_token_usage>>
              ELSE IF IsTuple(r)
              THEN /\ curated_articles' = Append(curated_articles, r.value)
                   /\ total_token_usage' = Accumulate(total_token_usage, r.token_usage)
                   /\ idx' = idx + 1
                   /\ UNCHANGED <<failed_articles, bpc>>
              ELSE /\ idx' = idx + 1
                   /\ UNCHANGED <<curated_articles, failed_articles, total_token_usage, bpc>>
    /\ UNCHANGED <<articles, articleVars, llmVars, extVars>>

\* one iteration of `for article in articles`: the call of process_article and the
\* isinstance(result, tuple) branch; an exception out of process_article would
\* leave _process_batch
ProcessBatchIteration ==
    /\ bpc = "loop"
    /\ idx <= Len(articles)
    /\ \E e \in BatchEnvs :
        LET r == process_article(articles[idx], e)
        IN /\ batch_env' = Append(batch_env, e)
           /\ IF r.kind = "raised"
              THEN /\ bpc' = "raised"
                   /\ UNCHANGED <<idx, curated_articles, failed_articles, total_token_usage>>
              ELSE IF IsTuple(r)
              THEN /\ curated_articles' = Append(curated_articles, r.value)
                   /\ total_token_usage' = Accumulate(total_token_usage, r.token_usage)
                   /\ idx' = idx + 1
                   /\ UNCHANGED <<failed_articles, bpc>>
              ELSE /\ failed_articles' = Append(failed_articles, r.value)
                   /\ idx' = idx + 1
                   /\ UNCHANGED <<curated_articles, total_token_usage, bpc>>
    /\ UNCHANGED <<articles, articleVars, llmVars, extVars>>

\* return curated_articles, failed_articles, total_token_usage
ReturnBatch ==
    /\ bpc = "loop"
    /\ idx > Len(articles)
    /\ bpc' = "returned"
    /\ UNCHANGED <<articles, idx, curated_articles, failed_articles, total_token_usage,
                   batch_env, articleVars, llmVars, extVars>>

NextBatch == ProcessBatchIteration \/ ReturnBatch

SpecBatch == InitBatch /\ [][NextBatch]_vars

-----------------------------------------------------------------------------
(* Claims about _process_batch (SpecBatch) *)

\* how many entries of list carry the id
CountId(list, id) == Cardinality({k \in 1..Len(list) : list[k].id = id})

\* article i of the batch met an enrichment call that returned
EnrichmentSucceeded(i) == ~batch_env[i].llm.raised

\* article i of the batch needs no translation, or both translation calls return
TranslationSucceeded(i) ==
    articles[i].language \notin {None, "en"} =>
        /\ ~batch_env[i].translate[articles[i].title].raised
        /\ ~batch_env[i].translate[articles[i].description].raised

\* C1: _process_batch returns (no exception leaves it) with every input article in
\* exactly one of curated_articles and failed_articles, once, so that
\* len(curated) + len(failed) == len(input).
C1_ExactlyOneDisposition ==
    /\ bpc # "raised"
    /\ bpc = "returned" =>
        /\ Len(curated_articles) + Len(failed_articles) = Len(articles)
        /\ \A i \in 1..Len(articles) :
              CountId(curated_articles, articles[i].id)
                + CountId(failed_articles, articles[i].id) = 1

C1_Witness ==
    /\ bpc = "returned"
    /\ Len(articles) >= 2
    /\ curated_articles # <<>>
    /\ failed_articles # <<>>

\* C4: per-article isolation in _process_batch: every article of the batch is
\* processed, an article whose own enrichment and translation succeed is returned
\* as a CuratedGlobeArticle whatever happened to the others, and an article whose
\* enrichment failed is returned as a FailedGlobeArticle with a non-empty reason.
C4_PerArticleIsolation ==
    bpc = "returned" =>
        /\ Len(batch_env) = Len(articles)
        /\ \A i \in 1..Len(batch_env) :
              /\ (EnrichmentSucceeded(i) /\ TranslationSucceeded(i)) =>
                    CountId(curated_articles, articles[i].id) = 1
              /\ ~EnrichmentSucceeded(i) =>
                    \E k \in 1..Len(failed_articles) :
                        /\ failed_articles[k].id = articles[i].id
                        /\ failed_articles[k].failure_reason # ""

\* a 3-article batch whose first article fails in enrichment and whose other two
\* are curated
C4_Witness ==
    /\ bpc = "returned"
    /\ Len(articles) = 3
    /\ ~EnrichmentSucceeded(1)
    /\ Len(curated_articles) = 2
    /\ Len(failed_articles) = 1
    /\ failed_articles[1].id = articles[1].id

\* the articles of the batch processed so far that were returned as curated
CuratedSoFar ==
    {i \in 1..Len(batch_env) : CountId(curated_articles, articles[i].id) = 1}

\* the sum, over the articles of S, of the usage their enrichment call reported
RECURSIVE UsageSum(_, _)
UsageSum(S, key) ==
    IF S = {} THEN 0
    ELSE LET i == CHOOSE x \in S : TRUE
         IN batch_env[i].llm.value.token_usage[key] + UsageSum(S \ {i}, key)

BatchUsageIsSumOfCurated ==
    bpc = "returned" =>
        /\ CuratedSoFar =
              {i \in 1..Len(articles) : EnrichmentSucceeded(i) /\ TranslationSucceeded(i)}
        /\ total_token_usage.input_tokens = UsageSum(CuratedSoFar, "input_tokens")
        /\ total_token_usage.output_tokens = UsageSum(CuratedSoFar, "output_tokens")

BatchUsageNeverDecreases ==
    /\ total_token_usage'.input_tokens >= total_token_usage.input_tokens
    /\ total_token_usage'.output_tokens >= total_token_usage.output_tokens

\* C36: the total_token_usage of _process_batch never decreases while the batch
\* is processed, and at the return it is, per counter, the sum of the usage of
\* exactly the articles returned as curated; the usage of an article whose
\* enrichment succeeded and whose translation failed is not in it.
C36_BatchUsageOfCuratedOnly ==
    [](BatchUsageIsSumOfCurated) /\ [][BatchUsageNeverDecreases]_vars

\* a batch with two curated articles that report different usage and an article
\* whose enrichment reported usage and whose translation failed
C36_Witness ==
    /\ bpc = "returned"
    /\ Cardinality(CuratedSoFar) = 2
    /\ total_token_usage = TokenUsage(107, 53)
    /\ \E i \in 1..Len(articles) : EnrichmentSucceeded(i) /\ ~TranslationSucceeded(i)

-----------------------------------------------------------------------------
(* Claims about process_article (SpecArticle) *)

\* the indices of inp that do not hold x
KeptIndices(inp, x) == {i \in 1..Len(inp) : inp[i] # x}

\* out is inp with exactly the entries equal to x deleted, the others in order
IsDeletionOf(out, inp, x) ==
    LET keep == KeptIndices(inp, x)
        nth(k) == CHOOSE i \in keep : Cardinality({j \in keep : j <= i}) = k
    IN /\ Len(out) = Cardinality(keep)
       /\ \A k \in 1..Len(out) : out[k] = inp[nth(k)]

\* C3: a constructed CuratedGlobeArticle never lists its own origin_country in
\* related_countries, and keeps every other returned country in the returned order.
C3_OriginCountryRemoved ==
    (apc = "returned" /\ IsTuple(result)) =>
        /\ result.value.origin_country \notin Range(result.value.related_countries)
        /\ IsDeletionOf(result.value.related_countries,
                        env.llm.value.parsed.related_countries,
                        article.origin_country)

\* origin GB and returned [US, GB, CA] gives [US, CA]
C3_Witness ==
    /\ apc = "returned"
    /\ IsTuple(result)
    /\ article.origin_country = "GB"
    /\ env.llm.value.parsed.related_countries = <<"US", "GB", "CA">>
    /\ result.value.related_countries = <<"US", "CA">>

\* the translate calls process_article made that raised
RaisingTranslateCalls ==
    {k \in 1..Len(result.translate_calls) :
        env.translate[result.translate_calls[k].text].raised}

\* C5: no exception leaves process_article; when the enrichment call or a
\* translation call that was made raises, a FailedGlobeArticle is returned whose
\* failure_reason is the message of that exception.
C5_ErrorsBecomeFailedArticle ==
    /\ apc # "raised"
    /\ apc = "returned" =>
        /\ env.llm.raised =>
              /\ result.kind = "FailedGlobeArticle"
              /\ result.value.failure_reason = env.llm.message
        /\ \A k \in RaisingTranslateCalls :
              /\ result.kind = "FailedGlobeArticle"
              /\ result.value.failure_reason =
                    env.translate[result.translate_calls[k].text].message

\* a translation call raised and became the failure reason
C5_Witness ==
    /\ apc = "returned"
    /\ ~env.llm.raised
    /\ RaisingTranslateCalls # {}
    /\ result.kind = "FailedGlobeArticle"
    /\ result.value.failure_reason = "Translation failed: title"

\* the article's language is set and is not English
TranslationRequired == article.language \notin {None, "en"}

\* every translation call the article requires returns
RequiredTranslationsSucceed ==
    TranslationRequired =>
        /\ ~env.translate[article.title].raised
        /\ ~env.translate[article.description].raised

\* C6: process_article returns a CuratedGlobeArticle iff the enrichment succeeded
\* and every translation call the article requires succeeded; otherwise it returns
\* a FailedGlobeArticle.
C6_CuratedIffAllSucceeded ==
    apc = "returned" =>
        /\ IsTuple(result) <=> (~env.llm.raised /\ RequiredTranslationsSucceed)
        /\ ~IsTuple(result) => result.kind = "FailedGlobeArticle"

\* enrichment and the title translation succeed, the description translation fails
C6_Witness ==
    /\ apc = "returned"
    /\ ~env.llm.raised
    /\ TranslationRequired
    /\ ~env.translate[article.title].raised
    /\ env.translate[article.description].raised
    /\ result.kind = "FailedGlobeArticle"

\* C7: for an article whose language is 'en' or unset no translation call is made,
\* and the CuratedGlobeArticle carries the original title and description as
\* title_translated and description_translated.
C7_EnglishNotTranslated ==
    (apc = "returned" /\ article.language \in {None, "en"}) =>
        /\ result.translate_calls = <<>>
        /\ IsTuple(result) =>
              /\ result.value.title_translated = article.title
              /\ result.value.description_translated = article.description

\* an English article was curated although the translator would have raised
C7_Witness ==
    /\ apc = "returned"
    /\ article.language = "en"
    /\ env.translate[article.title].raised
    /\ IsTuple(result)
    /\ result.value.title_translated = "title"

\* C8: for an article in a set, non-English language whose enrichment and both
\* translations succeed, process_article returns a CuratedGlobeArticle whose
\* title_translated and description_translated are the translator's outputs for
\* the title and for the description (non-null), and whose language is the input's.
C8_NonEnglishTranslated ==
    (/\ apc = "returned"
     /\ TranslationRequired
     /\ ~env.llm.raised
     /\ RequiredTranslationsSucceed) =>
        /\ IsTuple(result)
        /\ result.value.title_translated # None
        /\ result.value.description_translated # None
        /\ result.value.title_translated = env.translate[article.title].value
        /\ result.value.description_translated = env.translate[article.description].value
        /\ result.translate_calls = <<TranslateCall(article.title, article.language),
                                      TranslateCall(article.description, article.language)>>
        /\ result.value.language = article.language

\* a Czech article was curated with both translations
C8_Witness ==
    /\ apc = "returned"
    /\ article.language = "cs"
    /\ IsTuple(result)
    /\ result.value.title_translated = "en:title"
    /\ result.value.description_translated = "en:description"
    /\ result.value.language = "cs"

\* the messages of the two translation errors of the article
TitleError == env.translate[article.title].message
DescriptionError == env.translate[article.description].message

\* the separators a reason joining two messages may put between them
Separators == {"", " ", "; ", ", ", "\n"}

\* the reason holds both messages, in either order
ContainsBoth(reason, m1, m2) ==
    \E sep \in Separators : reason \in {m1 \o sep \o m2, m2 \o sep \o m1}

\* both translation calls of the article raise
BothTranslationsFail ==
    /\ ~env.llm.raised
    /\ TranslationRequired
    /\ env.translate[article.title].raised
    /\ env.translate[article.description].raised

\* C34 (as claimed): when both the title translation and the description
\* translation of an article fail, both calls are made (the failing title call
\* does not prevent the description call) and the failure_reason of the
\* FailedGlobeArticle holds the error messages of both calls.
C34_BothTranslationErrorsReported ==
    (apc = "returned" /\ BothTranslationsFail) =>
        /\ result.kind = "FailedGlobeArticle"
        /\ {result.translate_calls[k].text : k \in 1..Len(result.translate_calls)}
              = {article.title, article.description}
        /\ ContainsBoth(result.value.failure_reason, TitleError, DescriptionError)

\* the fields of an article the pipeline is to hand on as they are
OriginalFields ==
    {"id", "title", "description", "content", "language", "origin_country",
     "date_published", "date_scraped", "schema_version"}

ProducedKeepsOriginalFields ==
    apc = "returned" =>
        /\ result.kind \in {"tuple", "FailedGlobeArticle"}
        /\ \A f \in OriginalFields : result.value[f] = article[f]

InputUnchanged == article' = article

\* C37: the CuratedGlobeArticle or FailedGlobeArticle process_article produces
\* for an article has the id and the original fields (title, description,
\* content, language, origin_country, the timestamps, schema_version) of the
\* input, and the input article is not modified by process_article.
C37_IdentityAndInputPreserved ==
    [](ProducedKeepsOriginalFields) /\ [][InputUnchanged]_vars

\* a Czech article was curated with both translations, its own title kept
C37_Witness ==
    /\ apc = "returned"
    /\ IsTuple(result)
    /\ article.language = "cs"
    /\ result.value.title = "title"
    /\ result.value.title_translated = "en:title"
    /\ result.value.date_scraped = article.date_scraped

-----------------------------------------------------------------------------
(* azure_openai.py: AzureOpenAIHandler.process_article_batch *)

\* process_single_article(..., max_retries=4, initial_wait=8)
max_retries == 4
initial_wait == 8
\* the fixed cap of ThreadPoolExecutor(max_workers=min(10, len(articles)))
PoolCap == 10

Min(a, b) == IF a < b THEN a ELSE b

\* a pool with one worker for every article, whatever their number
max_workers_OnePerArticle == Len(llm_articles)

\* min(10, len(articles))
max_workers == Min(PoolCap, Len(llm_articles))

\* invoke_result['parsed'] when the structured output could not be parsed
NoneParsed == [none |-> TRUE]
IsNoneParsed(v) == DOMAIN v = {"none"}

\* what the model answers for a content when it answers
ParsedFor(content) == LLMArticleData("TECHNOLOGY", <<"US">>, <<content>>)

\* result.model_dump() merged into the dict by article.update(...)
DictUpdate(d, new) == new @@ d

\* the usage_metadata a call may report
Usages == {TokenUsage(100, 50), TokenUsage(7, 3)}

\* a future that was submitted and not yet picked up by a worker
PendingTask ==
    [state |-> "pending", attempt |-> 0, history |-> <<>>, sleeps |-> <<>>,
     usage |-> TokenUsage(0, 0), loaded |-> 0, outcome |-> [raised |-> FALSE, value |-> NoneParsed]]

\* futures a worker thread is executing
Running == {i \in DOMAIN task : task[i].state \notin {"pending", "done"}}

InitLLM ==
    /\ llm_articles \in
          {[i \in 1..n |-> [id |-> i, content |-> "content" \o ToString(i)]] :
              n \in 0..MaxArticles}
    /\ task = <<>>
    /\ successful = <<>>
    /\ failed = <<>>
    /\ total_usage = TokenUsage(0, 0)
    /\ usage_lock = 0
    /\ collected = {}
    /\ lpc = "start"
    /\ ArticleIdle
    /\ BatchIdle
    /\ ExtIdle

\* ThreadPoolExecutor(max_workers=...) and the dict comprehension of submits;
\* the constructor raises ValueError when max_workers <= 0
SubmitAll ==
    /\ lpc = "start"
    /\ IF max_workers <= 0
       THEN /\ lpc' = "raised"
            /\ task' = task
       ELSE /\ lpc' = "collect"
            /\ task' = [i \in 1..Len(llm_articles) |-> PendingTask]
    /\ UNCHANGED <<llm_articles, successful, failed, total_usage, usage_lock, collected,
                   articleVars, batchVars, extVars>>

\* a free worker thread takes the next queued future
StartTask(i) ==
    /\ i \in DOMAIN task
    /\ task[i].state = "pending"
    /\ \A j \in 1..(i - 1) : task[j].state # "pending"
    /\ Cardinality(Running) < max_workers
    /\ task' = [task EXCEPT ![i].state = "invoke"]
    /\ UNCHANGED <<llm_articles, successful, failed, total_usage, usage_lock, collected, lpc,
                   articleVars, batchVars, extVars>>

\* a retry test that is one too low: the third rate limit is already final
MayRetry_OneLess(attempt) == attempt < max_retries - 2

\* a retry test that is one too high: a sleep follows the final attempt too
MayRetry_OneMore(attempt) == attempt < max_retries

\* `if attempt < max_retries - 1` of the RateLimitError handler
MayRetry(attempt) == attempt < max_retries - 1

\* a backoff that grows by initial_wait with every attempt: 8, 16, 24
wait_time_Linear(attempt) == initial_wait * (attempt + 1)

\* wait_time = initial_wait * (2 ** attempt)
wait_time(attempt) == initial_wait * (2 ^ attempt)

\* a handler that treats every invocation failure like a rate limit: it backs off
\* and tries again
AfterInvoke_RetryOnError(t, what, u) ==
    LET h == Append(t.history, what)
    IN CASE what = "parsed" ->
              [t EXCEPT !.state = "lock", !.history = h, !.usage = u,
                        !.outcome = Returned(ParsedFor(t.content))]
         [] what = "unparsed" ->
              [t EXCEPT !.state = "lock", !.history = h, !.usage = u,
                        !.outcome = Returned(NoneParsed)]
         [] OTHER ->
              IF MayRetry(t.attempt)
              THEN [t EXCEPT !.state = "sleep", !.history = h,
                             !.sleeps = Append(t.sleeps, wait_time(t.attempt))]
              ELSE [t EXCEPT !.state = "done", !.history = h,
                             !.outcome = Raised("AzureOpenAIHandlerError",
                                                "Max retries reached for rate limit: 429")]

\* the task's record after one pass of the loop body of process_single_article at
\* task t: chain.invoke answers with what (its usage u when it answers)
AfterInvoke(t, what, u) ==
    LET h == Append(t.history, what)
    IN CASE what = "parsed" ->
              [t EXCEPT !.state = "lock", !.history = h, !.usage = u,
                        !.outcome = Returned(ParsedFor(t.content))]
         [] what = "unparsed" ->
              [t EXCEPT !.state = "lock", !.history = h, !.usage = u,
                        !.outcome = Returned(NoneParsed)]
         [] what = "rate_limit" ->
              IF MayRetry(t.attempt)
              THEN [t EXCEPT !.state = "sleep", !.history = h,
                             !.sleeps = Append(t.sleeps, wait_time(t.attempt))]
              ELSE [t EXCEPT !.state = "done", !.history = h,
                             !.outcome = Raised("AzureOpenAIHandlerError",
                                                "Max retries reached for rate limit: 429")]
         [] OTHER ->
              [t EXCEPT !.state = "done", !.history = h,
                        !.outcome = Raised("AzureOpenAIHandlerError",
                                           "Error processing article: boom")]

InvokeAnswers == {"parsed", "unparsed", "rate_limit", "error"}

\* one pass of `for attempt in range(max_retries)`: chain.invoke, then either the
\* way to `with usage_lock` or an except block
Invoke(i) ==
    /\ i \in DOMAIN task
    /\ task[i].state = "invoke"
    /\ \E what \in InvokeAnswers, u \in Usages :
        LET t == AfterInvoke(task[i] @@ [content |-> llm_articles[i].content], what, u)
        IN task' = [task EXCEPT ![i] = [f \in DOMAIN PendingTask |-> t[f]]]
    /\ UNCHANGED <<llm_articles, successful, failed, total_usage, usage_lock, collected, lpc,
                   articleVars, batchVars, extVars>>

\* a with statement that does not wait for the lock
MayAcquire_Unguarded(holder) == TRUE

\* Lock.acquire of `with usage_lock`: blocks while another thread holds the lock
MayAcquire(holder) == holder = 0

\* `with usage_lock:` is entered
AcquireUsageLock(i) ==
    /\ i \in DOMAIN task
    /\ task[i].state = "lock"
    /\ MayAcquire(usage_lock)
    /\ usage_lock' = i
    /\ task' = [task EXCEPT ![i].state = "load_input"]
    /\ UNCHANGED <<llm_articles, successful, failed, total_usage, collected, lpc,
                   articleVars, batchVars, extVars>>

\* the counter a state of the with block works on
UsageKey(state) ==
    IF state \in {"load_input", "store_input"} THEN "input_tokens" ELSE "output_tokens"

\* total_usage[key] += ...: the item is loaded
LoadUsage(i) ==
    /\ i \in DOMAIN task
    /\ task[i].state \in {"load_input", "load_output"}
    /\ task' = [task EXCEPT ![i].loaded = total_usage[UsageKey(task[i].state)],
                            ![i].state = IF @ = "load_input" THEN "store_input"
                                                            ELSE "store_output"]
    /\ UNCHANGED <<llm_articles, successful, failed, total_usage, usage_lock, collected, lpc,
                   articleVars, batchVars, extVars>>

\* total_usage[key] += ...: the sum of the loaded value and the reported count
\* is stored
StoreUsage(i) ==
    /\ i \in DOMAIN task
    /\ task[i].state \in {"store_input", "store_output"}
    /\ LET key == UsageKey(task[i].state)
       IN total_usage' = [total_usage EXCEPT ![key] = task[i].loaded + task[i].usage[key]]
    /\ task' = [task EXCEPT ![i].loaded = 0,
                            ![i].state = IF @ = "store_input" THEN "load_output"
                                                             ELSE "unlock"]
    /\ UNCHANGED <<llm_articles, successful, failed, usage_lock, collected, lpc,
                   articleVars, batchVars, extVars>>

\* the with block is left, the debug line is logged and parsed_result returned
ReleaseUsageLock(i) ==
    /\ i \in DOMAIN task
    /\ task[i].state = "unlock"
    /\ usage_lock' = 0
    /\ task' = [task EXCEPT ![i].state = "done"]
    /\ UNCHANGED <<llm_articles, successful, failed, total_usage, collected, lpc,
                   articleVars, batchVars, extVars>>

\* time.sleep(wait_time) returns and the for loop moves to the next attempt; a
\* range that is used up reaches the raise after the loop
Wake(i) ==
    /\ i \in DOMAIN task
    /\ task[i].state = "sleep"
    /\ task' = [task EXCEPT ![i] =
                  IF task[i].attempt + 1 < max_retries
                  THEN [@ EXCEPT !.state = "invoke", !.attempt = @ + 1]
                  ELSE [@ EXCEPT !.state = "done",
                                 !.outcome = Raised("AzureOpenAIHandlerError",
                                     "Unexpected: Max retries reached without throwing an exception")]]
    /\ UNCHANGED <<llm_articles, successful, failed, total_usage, usage_lock, collected, lpc,
                   articleVars, batchVars, extVars>>

\* a loop that pairs the k-th completed future with the k-th article of the list
future_to_article_ByCompletion(i) == llm_articles[Cardinality(collected) + 1]

\* future_to_article[future] for the future of the i-th submit
future_to_article(i) == llm_articles[i]

\* one pass of `for future in as_completed(future_to_article)`: any finished
\* future not yet seen
Collect(i) ==
    /\ lpc = "collect"
    /\ i \in DOMAIN task
    /\ task[i].state = "done"
    /\ i \notin collected
    /\ collected' = collected \cup {i}
    /\ LET o == task[i].outcome
           a == future_to_article(i)
       IN IF o.raised
          THEN \* except AzureOpenAIHandlerError as e
               /\ failed' = Append(failed, DictUpdate(a, [error_message |-> o.message]))
               /\ UNCHANGED successful
          ELSE IF IsNoneParsed(o.value)
          THEN \* result.model_dump() on None: except Exception as e
               /\ failed' = Append(failed, DictUpdate(a,
                      [error_message |-> "Unexpected thread error: 'NoneType' object has no attribute 'model_dump'"]))
               /\ UNCHANGED successful
          ELSE /\ successful' = Append(successful, DictUpdate(a, o.value))
               /\ UNCHANGED failed
    /\ UNCHANGED <<llm_articles, task, total_usage, usage_lock, lpc,
                   articleVars, batchVars, extVars>>

\* as_completed is used up, the with block joins the pool, the method returns
ReturnLLM ==
    /\ lpc = "collect"
    /\ collected = DOMAIN task
    /\ lpc' = "returned"
    /\ UNCHANGED <<llm_articles, task, successful, failed, total_usage, usage_lock,
                   collected, articleVars, batchVars, extVars>>

NextLLM ==
    \/ SubmitAll
    \/ \E i \in 1..Len(llm_articles) : StartTask(i)
    \/ \E i \in 1..Len(llm_articles) : Invoke(i)
    \/ \E i \in 1..Len(llm_articles) : AcquireUsageLock(i)
    \/ \E i \in 1..Len(llm_articles) : LoadUsage(i)
    \/ \E i \in 1..Len(llm_articles) : StoreUsage(i)
    \/ \E i \in 1..Len(llm_articles) : ReleaseUsageLock(i)
    \/ \E i \in 1..Len(llm_articles) : Wake(i)
    \/ \E i \in 1..Len(llm_articles) : Collect(i)
    \/ ReturnLLM

SpecLLM == InitLLM /\ [][NextLLM]_vars

-----------------------------------------------------------------------------
(* azure_openai.py: the ThreadPoolExecutor of process_article_batch (SpecPool) *)

\* the empty batch, a single article and a batch of MaxPool articles; the
\* articles of a batch are taken equal, which article a future belongs to being
\* the subject of SpecLLM
InitPool ==
    /\ llm_articles \in
          {[i \in 1..n |-> [id |-> 1, content |-> "content1"]] : n \in {0, 1, MaxPool}}
    /\ task = <<>>
    /\ successful = <<>>
    /\ failed = <<>>
    /\ total_usage = TokenUsage(0, 0)
    /\ usage_lock = 0
    /\ collected = {}
    /\ lpc = "start"
    /\ ArticleIdle
    /\ BatchIdle
    /\ ExtIdle

\* process_single_article when chain.invoke raises an exception that is not a
\* RateLimitError: `except Exception` raises AzureOpenAIHandlerError and the
\* worker thread is free again
InvokeFails(i) ==
    /\ i \in DOMAIN task
    /\ task[i].state = "invoke"
    /\ LET t == AfterInvoke(task[i] @@ [content |-> llm_articles[i].content],
                            "error", TokenUsage(0, 0))
       IN task' = [task EXCEPT ![i] = [f \in DOMAIN PendingTask |-> t[f]]]
    /\ UNCHANGED <<llm_articles, successful, failed, total_usage, usage_lock, collected, lpc,
                   articleVars, batchVars, extVars>>

NextPool ==
    \/ SubmitAll
    \/ \E i \in 1..Len(llm_articles) : StartTask(i)
    \/ \E i \in 1..Len(llm_articles) : InvokeFails(i)
    \/ \E i \in 1..Len(llm_articles) : Collect(i)
    \/ ReturnLLM

SpecPool == InitPool /\ [][NextPool]_vars

-----------------------------------------------------------------------------
(* Claims about process_article_batch and process_single_article (SpecLLM) *)

\* every answer task i has met so far was a rate limit
AllRateLimited(i) ==
    /\ task[i].history # <<>>
    /\ \A k \in 1..Len(task[i].history) : task[i].history[k] = "rate_limit"

\* task i ended with the permanent rate-limit failure
FailedOnRateLimit(i) ==
    /\ task[i].state = "done"
    /\ task[i].outcome.raised
    /\ task[i].outcome.cls = "AzureOpenAIHandlerError"
    /\ task[i].outcome.message = "Max retries reached for rate limit: 429"

\* C2 (as claimed): for every input list, the empty one included,
\* process_article_batch returns normally with every input article in exactly one
\* of successful_articles and failed_articles.
C2_ReturnsPartitionForEveryList ==
    /\ lpc # "raised"
    /\ lpc = "returned" =>
        /\ Len(successful) + Len(failed) = Len(llm_articles)
        /\ \A i \in 1..Len(llm_articles) :
              CountId(successful, llm_articles[i].id)
                + CountId(failed, llm_articles[i].id) = 1

\* C9: a task that meets a rate limit on every attempt invokes the model exactly
\* max_retries times, no more and no fewer, and then ends with the permanent
\* 'Max retries reached for rate limit' error.
C9_ExactlyMaxRetriesInvocations ==
    \A i \in DOMAIN task :
        AllRateLimited(i) =>
            /\ Len(task[i].history) <= max_retries
            /\ task[i].state = "done" <=> Len(task[i].history) = max_retries
            /\ task[i].state = "done" => FailedOnRateLimit(i)

C9_Witness ==
    \E i \in DOMAIN task :
        /\ task[i].history = <<"rate_limit", "rate_limit", "rate_limit", "rate_limit">>
        /\ FailedOnRateLimit(i)

\* C10 (as claimed): after max_retries consecutive rate-limit responses the task
\* has slept max_retries times before the permanent failure.
C10_SleepsEqualAttemptCap ==
    \A i \in DOMAIN task :
        (AllRateLimited(i) /\ task[i].state = "done") =>
            Len(task[i].sleeps) = max_retries

\* C10 (amended): after max_retries consecutive rate-limit responses the task has
\* slept max_retries - 1 times, once between two attempts and not after the last,
\* before the permanent failure.
C10_SleepsBetweenAttempts ==
    \A i \in DOMAIN task :
        (AllRateLimited(i) /\ task[i].state = "done") =>
            /\ Len(task[i].sleeps) = max_retries - 1
            /\ FailedOnRateLimit(i)

C10_Witness ==
    \E i \in DOMAIN task :
        /\ AllRateLimited(i)
        /\ FailedOnRateLimit(i)
        /\ task[i].sleeps = <<8, 16, 32>>

\* the answers of chain.invoke that are failures but not rate-limit signals: an
\* exception other than RateLimitError, and structured output that did not parse
NonRateLimitFailures == {"error", "unparsed"}

\* task i is between the answer of chain.invoke and its return: at the with
\* block that adds the reported usage
UpdatingUsage(i) ==
    task[i].state \in {"lock", "load_input", "store_input", "load_output",
                       "store_output", "unlock"}

Answered == {i \in DOMAIN task : task[i].history # <<>>
                                  /\ task[i].history[Len(task[i].history)]
                                        \in {"parsed", "unparsed"}}

\* the sum, over the tasks of S, of the count the answered invocation reported
RECURSIVE ReportedSum(_, _)
ReportedSum(S, key) ==
    IF S = {} THEN 0
    ELSE LET i == CHOOSE x \in S : TRUE
         IN task[i].usage[key] + ReportedSum(S \ {i}, key)

UsageIsSumOfAnswers ==
    lpc = "returned" =>
        /\ total_usage.input_tokens = ReportedSum(Answered, "input_tokens")
        /\ total_usage.output_tokens = ReportedSum(Answered, "output_tokens")

UsageNeverDecreases ==
    /\ total_usage'.input_tokens >= total_usage.input_tokens
    /\ total_usage'.output_tokens >= total_usage.output_tokens

\* C30: under every interleaving of the worker threads, the total_usage that
\* process_article_batch returns is, for input_tokens and for output_tokens
\* separately, the sum of the counts reported by exactly the invocations of
\* chain.invoke that returned a result, and no step makes a counter smaller.
C30_UsageAccumulatedWithoutLoss == [](UsageIsSumOfAnswers) /\ [][UsageNeverDecreases]_vars

C30_Witness ==
    /\ lpc = "returned"
    /\ \E i, j \in Answered : task[i].usage # task[j].usage
    /\ total_usage = TokenUsage(107, 53)

\* C31: at every moment of process_article_batch the number of tasks a worker
\* thread is executing is at most min(10, batch size), and when the call has
\* returned every article's task has been submitted and has ended.
C31_PoolBoundedAndJoined ==
    /\ Cardinality(Running) <= Min(PoolCap, Len(llm_articles))
    /\ lpc = "returned" =>
          /\ DOMAIN task = 1..Len(llm_articles)
          /\ \A i \in DOMAIN task : task[i].state = "done"

C31_Witness ==
    /\ Len(llm_articles) > PoolCap
    /\ Cardinality(Running) = PoolCap
    /\ \E i \in DOMAIN task : task[i].state = "pending"

\* the position of the article with this id in the input list
InputPosition(id) == CHOOSE i \in 1..Len(llm_articles) : llm_articles[i].id = id

\* the articles of the list are in the order of the input list
InInputOrder(list) ==
    \A a, b \in 1..Len(list) :
        a < b => InputPosition(list[a].id) < InputPosition(list[b].id)

\* C32 (as claimed): the order of the output of process_article_batch is the
\* order of the input: two articles that are both in successful_articles, or
\* both in failed_articles, are there in their order in the input list, whatever
\* order the tasks complete in.
C32_OutputInInputOrder ==
    lpc = "returned" => InInputOrder(successful) /\ InInputOrder(failed)

\* the entries of the list for the article with this id
EntriesFor(list, id) == {k \in 1..Len(list) : list[k].id = id}

\* the one entry of the list for this id is this dict
OnlyEntry(list, id, dict) ==
    /\ Cardinality(EntriesFor(list, id)) = 1
    /\ \A k \in EntriesFor(list, id) : list[k] = dict

\* C33: under every completion order each task's outcome ends with the article
\* that originated it. The fields merged into an article are the answer to the
\* invocation made with that article's content, an error message is attached to
\* the article whose task failed, and every article is in exactly one of the two
\* lists exactly once.
C33_OutcomeStaysWithItsArticle ==
    lpc = "returned" =>
        \A i \in 1..Len(llm_articles) :
            LET a == llm_articles[i]
                o == task[i].outcome
            IN IF ~o.raised /\ ~IsNoneParsed(o.value)
               THEN /\ o.value = ParsedFor(a.content)
                    /\ OnlyEntry(successful, a.id, DictUpdate(a, ParsedFor(a.content)))
                    /\ EntriesFor(failed, a.id) = {}
               ELSE /\ EntriesFor(successful, a.id) = {}
                    /\ Cardinality(EntriesFor(failed, a.id)) = 1
                    /\ \A k \in EntriesFor(failed, a.id) :
                          /\ [f \in DOMAIN a |-> failed[k][f]] = a
                          /\ o.raised => failed[k].error_message = o.message

C33_Witness ==
    /\ lpc = "returned"
    /\ Len(successful) = 1
    /\ Len(failed) = 1
    /\ successful[1].id = 2
    /\ task[1].outcome.raised
    /\ failed[1].error_message = "Max retries reached for rate limit: 429"

\* the answers of task i that were rate limits
RateLimitsOf(i) == {k \in 1..Len(task[i].history) : task[i].history[k] = "rate_limit"}

\* C35: in process_single_article the sleep before retry k (k = 0, 1, 2) lasts
\* initial_wait * 2^k seconds, 8, 16 and 32 with the defaults: every delay is
\* the double of the one before it, a sleep follows every rate limit but the one
\* of the final attempt, and nothing else is followed by a sleep.
C35_BackoffDoublesFromInitialWait ==
    \A i \in DOMAIN task :
        LET sl == task[i].sleeps
        IN /\ \A k \in 1..Len(sl) :
                /\ sl[k] = initial_wait * (2 ^ (k - 1))
                /\ k > 1 => sl[k] = 2 * sl[k - 1]
           /\ Len(sl) <= max_retries - 1
           /\ Len(sl) = Cardinality(RateLimitsOf(i) \ {max_retries})

C35_Witness ==
    \E i \in DOMAIN task :
        /\ task[i].history = <<"rate_limit", "rate_limit", "rate_limit", "parsed">>
        /\ task[i].sleeps = <<8, 16, 32>>
        /\ task[i].state = "done"
        /\ ~task[i].outcome.raised

-----------------------------------------------------------------------------
(* translator.py: ArticleTranslator.translate_async (SpecTranslate) *)

\* self._initial_backoff and self._max_backoff, in seconds
_initial_backoff == 1
_max_backoff == 60

\* the values of the Retry-After header of a 429 answer: absent, or a delay in
\* seconds as the service writes it
RetryAfterHeaders == {None, "5", "120"}

\* float(retry_after)
Float(s) == CASE s = "5" -> 5 [] s = "120" -> 120

\* what one client.post can meet: a 200 answer with a translation or with an
\* empty one, a 429 with or without Retry-After, another error status, or no
\* answer at all (httpx.ConnectError)
HTTPResponse(status, text, retry_after) ==
    [transport_error |-> FALSE, status |-> status, text |-> text,
     retry_after |-> retry_after]
NoResponse ==
    [transport_error |-> TRUE, status |-> 0, text |-> "", retry_after |-> None]
ErrorStatuses == {401, 500}
Responses(text) ==
    {HTTPResponse(200, t, None) : t \in {TranslatedText(text), ""}}
      \cup {HTTPResponse(429, "", h) : h \in RetryAfterHeaders}
      \cup {HTTPResponse(st, "", None) : st \in ErrorStatuses}
      \cup {NoResponse}

\* str(e) of the httpx.HTTPStatusError that raise_for_status raises
StatusDetail(status) ==
    CASE status = 401 -> "Client error '401 Unauthorized'"
      [] status = 500 -> "Server error '500 Internal Server Error'"
      [] status = 429 -> "Client error '429 Too Many Requests'"

\* a backoff that doubles without the ceiling
NextBackoff_NoCeiling(b, retry_after) ==
    IF Truthy(retry_after) THEN Float(retry_after) ELSE b * 2

\* the if/else on retry_after in the 429 branch
NextBackoff(b, retry_after) ==
    IF Truthy(retry_after) THEN Float(retry_after) ELSE Min(b * 2, _max_backoff)

\* a test that backs off on server errors as well
IsRateLimited_ServerErrorsToo(status) == status = 429 \/ status >= 500

\* `if e.response.status_code == 429`
IsRateLimited(status) == status = 429

\* a test that accepts any 200 answer
IsEmptyTranslation_Never(translated_text) == FALSE

\* `if not translated_text`
IsEmptyTranslation(translated_text) == ~Truthy(translated_text)

Count429(rs) == Cardinality({k \in 1..Len(rs) : rs[k].status = 429})

InitTranslate ==
    /\ tr_text \in {"title", "description"}
    /\ tr_backoff = _initial_backoff
    /\ tr_sleeps = <<>>
    /\ tr_responses = <<>>
    /\ tr_tokens = 0
    /\ tr_result = [kind |-> "pending"]
    /\ tpc = "request"
    /\ ArticleIdle
    /\ BatchIdle
    /\ LLMIdle
    /\ MongoIdle
    /\ DriverIdle

\* one pass of `while True` up to its return, its raise or its sleep: client.post
\* is awaited directly, no rate limiter is asked first
Post ==
    /\ tpc = "request"
    /\ \E r \in Responses(tr_text) :
        /\ r.status = 429 => Count429(tr_responses) < Max429
        /\ tr_responses' = Append(tr_responses, r)
        /\ IF r.transport_error
           THEN \* not an HTTPStatusError: no except clause matches
                /\ tr_result' = Raised("ConnectError", "All connection attempts failed")
                /\ tpc' = "raised"
                /\ UNCHANGED <<tr_backoff, tr_sleeps>>
           ELSE IF r.status = 200
           THEN IF IsEmptyTranslation(r.text)
                THEN /\ tr_result' = Raised("ArticleTranslatorError", "Translation failed:")
                     /\ tpc' = "raised"
                     /\ UNCHANGED <<tr_backoff, tr_sleeps>>
                ELSE /\ tr_result' = Returned(r.text)
                     /\ tpc' = "returned"
                     /\ UNCHANGED <<tr_backoff, tr_sleeps>>
           ELSE IF IsRateLimited(r.status)
           THEN /\ tr_backoff' = NextBackoff(tr_backoff, r.retry_after)
                /\ tr_sleeps' = Append(tr_sleeps, tr_backoff')
                /\ tpc' = "sleep"
                /\ UNCHANGED tr_result
           ELSE /\ tr_result' = Raised("ArticleTranslatorError",
                                       "Translation failed: " \o StatusDetail(r.status))
                /\ tpc' = "raised"
                /\ UNCHANGED <<tr_backoff, tr_sleeps>>
    /\ UNCHANGED <<tr_text, tr_tokens, articleVars, batchVars, llmVars, mongoVars, driverVars>>

\* a loop that gives up after three attempts
AfterSleep_GiveUpAfterThree ==
    /\ tpc = "sleep"
    /\ IF Len(tr_responses) < 3
       THEN tpc' = "request" /\ UNCHANGED tr_result
       ELSE /\ tpc' = "raised"
            /\ tr_result' = Raised("ArticleTranslatorError", "Translation failed: too many retries")
    /\ UNCHANGED <<tr_text, tr_backoff, tr_sleeps, tr_responses, tr_tokens,
                   articleVars, batchVars, llmVars, mongoVars, driverVars>>

\* asyncio.sleep(backoff) returns and `while True` starts its next pass
AfterSleep ==
    /\ tpc = "sleep"
    /\ tpc' = "request"
    /\ UNCHANGED <<tr_text, tr_backoff, tr_sleeps, tr_responses, tr_tokens, tr_result,
                   articleVars, batchVars, llmVars, mongoVars, driverVars>>

NextTranslate == Post \/ AfterSleep

SpecTranslate == InitTranslate /\ [][NextTranslate]_vars

\* the event loop resumes a coroutine whose await has completed
SpecTranslateLive == SpecTranslate /\ WF_vars(Post) /\ WF_vars(AfterSleep)

-----------------------------------------------------------------------------
(* Claims about translate_async (SpecTranslate, SpecTranslateLive) *)

Terminated == tpc \in {"returned", "raised"}

\* every answer so far is a 429 without a Retry-After header
Only429WithoutHint ==
    \A k \in 1..Len(tr_responses) :
        tr_responses[k].status = 429 /\ tr_responses[k].retry_after = None

\* C12 (as claimed): under consecutive 429 answers without Retry-After the sleeps
\* are the initial delay, then its doubles up to the ceiling: 1, 2, 4, ..., 60, 60.
C12_BackoffStartsAtInitialDelay ==
    Only429WithoutHint =>
        \A k \in 1..Len(tr_sleeps) :
            tr_sleeps[k] = Min(_initial_backoff * (2 ^ (k - 1)), _max_backoff)

\* C13: the sleep after a 429 with a Retry-After header is exactly the delay the
\* header gives; the sleep after a 429 without one is at most the ceiling,
\* whatever delays came before.
C13_HintHonouredElseCapped ==
    /\ Len(tr_sleeps) = Count429(tr_responses)
    /\ \A k \in 1..Len(tr_sleeps) :
          /\ tr_responses[k].status = 429
          /\ IF tr_responses[k].retry_after # None
             THEN tr_sleeps[k] = Float(tr_responses[k].retry_after)
             ELSE tr_sleeps[k] <= _max_backoff

C13_Witness ==
    /\ Len(tr_sleeps) >= 3
    /\ tr_responses[1].retry_after = "120" /\ tr_sleeps[1] = 120
    /\ tr_responses[2].retry_after = None /\ tr_sleeps[2] = 60
    /\ tr_responses[3].retry_after = "5" /\ tr_sleeps[3] = 5

\* the safety half of C14: every 429 is followed by a sleep and then by another
\* request, however many came before, and the call ends only on an answer that is
\* not a 429, by returning the translated text or by raising
C14_Safety ==
    /\ \A k \in 1..Len(tr_responses) :
          tr_responses[k].status = 429 =>
              /\ Len(tr_sleeps) >= k
              /\ k = Len(tr_responses) => tpc \in {"sleep", "request"}
    /\ tpc = "request" => Len(tr_sleeps) = Len(tr_responses)
    /\ Terminated =>
          /\ tr_responses # <<>>
          /\ tr_responses[Len(tr_responses)].status # 429
          /\ \A k \in 1..(Len(tr_responses) - 1) : tr_responses[k].status = 429
          /\ tpc = "returned" =>
                ~tr_result.raised /\ tr_result.value = TranslatedText(tr_text)
          /\ tpc = "raised" => tr_result.raised

\* C14: translate_async has no attempt cap: after every 429 it sleeps and sends
\* another request, and it ends only by returning the translated text or by
\* raising on an answer that is not a 429; when the service at some point answers
\* with something other than a 429, the call ends.
C14_RetriesUntilNon429 == [](C14_Safety) /\ <>Terminated

C14_Witness ==
    /\ tpc = "returned"
    /\ Len(tr_responses) = Max429 + 1
    /\ Len(tr_sleeps) = Max429

\* C15: an error answer whose status is not 429 ends the call at once with
\* ArticleTranslatorError carrying the upstream detail: it is the last request,
\* and no sleep follows it.
C15_OtherErrorFailsImmediately ==
    \A k \in 1..Len(tr_responses) :
        (~tr_responses[k].transport_error /\ tr_responses[k].status \in ErrorStatuses) =>
            /\ k = Len(tr_responses)
            /\ tpc = "raised"
            /\ tr_result = Raised("ArticleTranslatorError",
                                  "Translation failed: " \o StatusDetail(tr_responses[k].status))
            /\ Len(tr_sleeps) = k - 1

C15_Witness ==
    /\ tpc = "raised"
    /\ tr_responses = <<HTTPResponse(500, "", None)>>
    /\ tr_sleeps = <<>>
    /\ tr_result.message = "Translation failed: Server error '500 Internal Server Error'"

\* C16: a 200 answer whose translated text is empty makes the call raise
\* ArticleTranslatorError: it is the last request, no retry and no sleep follows,
\* and the empty string is never returned.
C16_EmptyTranslationRaises ==
    /\ \A k \in 1..Len(tr_responses) :
          (tr_responses[k].status = 200 /\ tr_responses[k].text = "") =>
              /\ k = Len(tr_responses)
              /\ tpc = "raised"
              /\ tr_result.raised
              /\ tr_result.cls = "ArticleTranslatorError"
              /\ Len(tr_sleeps) = k - 1
    /\ tpc = "returned" => tr_result.value # ""

C16_Witness ==
    /\ tpc = "raised"
    /\ Len(tr_responses) = 2
    /\ tr_responses[1].status = 429
    /\ tr_responses[2] = HTTPResponse(200, "", None)
    /\ tr_result = Raised("ArticleTranslatorError", "Translation failed:")

\* C17 (as claimed): every request to the translation service, each retry
\* included, is preceded by taking one token from a rate limiter.
C17_EveryRequestTakesToken == Len(tr_responses) <= tr_tokens

-----------------------------------------------------------------------------
(* database/mongo_handler.py: MongoHandler (SpecMongo) *)

\* the fields of class Config
ConfigFields ==
    {"LOG_LEVEL", "LOGGING_DIR", "MONGO_URI", "MONGO_DB", "BATCH_SIZE",
     "LLM_PROVIDER", "LLM_API_KEY", "LLM_ENDPOINT", "LLM_API_VERSION", "TEMPERATURE",
     "MAX_TOKENS", "MAX_RETRIES", "SYSTEM_PROMPT_FILE", "FEW_SHOT_EXAMPLES_FILE",
     "AZURE_TRANSLATOR_API_KEY", "AZURE_TRANSLATOR_ENDPOINT",
     "AZURE_TRANSLATOR_LOCATION"}

\* the config objects a MongoHandler is built with: a Config, or an object that
\* also carries the SCHEMA_VERSION that get_unprocessed_articles and its unit test
\* read from it
Configs == {ConfigFields, ConfigFields \cup {"SCHEMA_VERSION"}}

\* self._config.SCHEMA_VERSION where the attribute exists
SCHEMA_VERSION == "1.1"

\* a document of the articles collection, without its _id
Document(schema_version, date_scraped) ==
    [title |-> "title",
     title_translated |-> None,
     description |-> "description",
     description_translated |-> None,
     language |-> "cs",
     content |-> "content",
     origin_country |-> "GB",
     keywords |-> <<"scraped">>,
     schema_version |-> schema_version,
     date_scraped |-> date_scraped,
     category |-> None,
     related_countries |-> NoneList,
     post_processed |-> FALSE]

\* GlobeArticle(**doc): the alias _id becomes the field id
GlobeArticleFromDoc(id, doc) == [id |-> id] @@ doc

\* the validation of GlobeArticle(**doc): language is an Optional[LanguageAlpha2],
\* origin_country a CountryAlpha2; a document that fails it raises ValidationError
Validates(doc) == doc.language \in Languages /\ doc.origin_country \in Countries

\* the CuratedGlobeArticle the pipeline builds for the article with this id
CuratedInput(id) ==
    _create_curated_article(GlobeArticle(id, "cs", "GB"),
                            LLMArticleData("POLITICS", <<"US", "GB">>,
                                           <<"election", "scraped", "election">>),
                            TranslatedText("title"), TranslatedText("description"))

\* $push with $each: every value is appended
AddToSetEach_Push(array, values) == array \o values

\* $addToSet with $each: every value not yet in the array is appended
RECURSIVE AddToSetEach(_, _)
AddToSetEach(array, values) ==
    IF values = <<>> THEN array
    ELSE AddToSetEach(IF Head(values) \in Range(array) THEN array
                      ELSE Append(array, Head(values)),
                      Tail(values))

\* the update document of update_articles applied to one stored document
ApplyUpdate(doc, curated_article) ==
    [doc EXCEPT !.post_processed = TRUE,
                !.category = curated_article.category,
                !.related_countries = curated_article.related_countries,
                !.title_translated = curated_article.title_translated,
                !.description_translated = curated_article.description_translated,
                !.keywords = AddToSetEach(doc.keywords, curated_article.keywords)]

\* self._articles.update_one({"_id": id}, update): the collection afterwards and
\* the counts of the UpdateResult
update_one(collection, curated_article) ==
    LET id == curated_article.id
    IN IF id \in DOMAIN collection
       THEN LET new == ApplyUpdate(collection[id], curated_article)
            IN [collection |-> [collection EXCEPT ![id] = new],
                matched_count |-> 1,
                modified_count |-> IF new = collection[id] THEN 0 ELSE 1]
       ELSE [collection |-> collection, matched_count |-> 0, modified_count |-> 0]

\* a test on the documents matched instead of the documents modified
IsModified_Matched(update_result) == update_result.matched_count > 0

\* `if result.modified_count > 0`
IsModified(update_result) == update_result.modified_count > 0

\* the filter of get_unprocessed_articles: {"post_processed": {"$ne": True},
\* "schema_version": ...}
Matching(collection, schema_version) ==
    {id \in DOMAIN collection :
        /\ collection[id].post_processed # TRUE
        /\ collection[id].schema_version = schema_version}

\* the sort [("post_processed", 1), ("date_scraped", -1)]: a before b is allowed
SortsBefore(a, b) ==
    \/ (~a.post_processed /\ b.post_processed)
    \/ (a.post_processed = b.post_processed /\ a.date_scraped >= b.date_scraped)

\* every order the sorted cursor may deliver the matching documents in (documents
\* with equal keys come in any order)
SortedCursors(collection, ids) ==
    {c \in [1..Cardinality(ids) -> ids] :
        /\ \A j, k \in 1..Cardinality(ids) : j # k => c[j] # c[k]
        /\ \A k \in 1..(Cardinality(ids) - 1) :
              SortsBefore(collection[c[k]], collection[c[k + 1]])}

\* limit=batch_size on a sorted cursor
Limit(cursor, batch_size) == SubSeq(cursor, 1, Min(batch_size, Len(cursor)))

\* an error handler that logs and raises the exception again
OnFetchError_Reraise(cls) == Raised(cls, "fetch failed")

\* the two except clauses of get_unprocessed_articles: log, return []
OnFetchError(cls) == Returned(<<>>)

\* the collections the call may find: each _id of 1..MaxDocs is absent, an
\* unprocessed document of the current or of an older schema version, one whose
\* scraped keywords repeat a keyword, one whose language is no language code, or
\* a document update_articles has already written
Collections ==
    LET docs == {Document(sv, ds) : sv \in {"1.1", "1.0"}, ds \in {1, 2}}
                  \cup {[Document("1.1", 2) EXCEPT
                            !.keywords = <<"scraped", "old", "scraped">>]}
                  \cup {[Document("1.1", 2) EXCEPT !.language = "xx"]}
                  \cup {ApplyUpdate(Document("1.1", 1), CuratedInput(0))}
    IN UNION {[ids -> docs] : ids \in SUBSET (1..MaxDocs)}

\* the ids of the articles of an input list: the stored ones and one never
\* stored, the same article possibly more than once
CuratedLists == SeqsUpTo(1..(MaxDocs + 1), MaxDocs)

InitMongo ==
    /\ mongo_config \in Configs
    /\ db_articles \in Collections
    /\ db_failed = <<>>
    /\ db_before = [articles |-> db_articles, failed_articles |-> db_failed]
    /\ m_call = [op |-> "none"]
    /\ m_idx = 0
    /\ updated_ids = <<>>
    /\ moved_ids = <<>>
    /\ m_article = [none |-> TRUE]
    /\ m_deleted = {}
    /\ m_fault = "none"
    /\ m_return = [kind |-> "pending"]
    /\ mpc = "ready"
    /\ ArticleIdle
    /\ BatchIdle
    /\ LLMIdle
    /\ TranslateIdle
    /\ DriverIdle

\* get_unprocessed_articles(batch_size): building the filter reads
\* self._config.SCHEMA_VERSION, then find, sort and the conversion of the documents
get_unprocessed_articles(batch_size) ==
    /\ m_call' = [op |-> "get_unprocessed_articles", batch_size |-> batch_size]
    /\ IF "SCHEMA_VERSION" \notin mongo_config
       THEN \* AttributeError, caught by `except Exception`
            /\ m_return' = OnFetchError("AttributeError")
            /\ m_fault' = "none"
       ELSE \/ /\ m_fault' = "PyMongoError"
               /\ m_return' = OnFetchError("PyMongoError")
            \/ /\ m_fault' = "none"
               /\ \E c \in SortedCursors(db_articles,
                                         Matching(db_articles, SCHEMA_VERSION)) :
                    LET docs == Limit(c, batch_size)
                    IN m_return' =
                         IF \A k \in 1..Len(docs) : Validates(db_articles[docs[k]])
                         THEN Returned([k \in 1..Len(docs) |->
                                          GlobeArticleFromDoc(docs[k], db_articles[docs[k]])])
                         ELSE \* ValidationError in the list comprehension
                              OnFetchError("ValidationError")
    /\ mpc' = IF m_return'.raised THEN "raised" ELSE "returned"

\* one call of get_unprocessed_articles with some batch size
GetUnprocessedArticles ==
    /\ mpc = "ready"
    /\ \E batch_size \in 1..MaxDocs : get_unprocessed_articles(batch_size)
    /\ UNCHANGED <<mongo_config, db_articles, db_failed, db_before, m_idx, updated_ids,
                   moveVars, articleVars, batchVars, llmVars, translateVars, driverVars>>

\* update_articles(curated_articles) is entered: updated_ids = []
UpdateArticles ==
    /\ mpc = "ready"
    /\ \E ids \in CuratedLists :
        m_call' = [op |-> "update_articles",
                   curated_articles |-> [k \in 1..Len(ids) |-> CuratedInput(ids[k])]]
    /\ m_idx' = 1
    /\ updated_ids' = <<>>
    /\ mpc' = "update_loop"
    /\ UNCHANGED <<mongo_config, db_articles, db_failed, db_before, m_fault, m_return,
                   moveVars, articleVars, batchVars, llmVars, translateVars, driverVars>>

\* one pass of `for curated_article in curated_articles`; a PyMongoError of
\* update_one leaves the loop for the except clause and the return after it
UpdateOne ==
    /\ mpc = "update_loop"
    /\ m_idx <= Len(m_call.curated_articles)
    /\ \/ LET update_result == update_one(db_articles, m_call.curated_articles[m_idx])
          IN /\ db_articles' = update_result.collection
             /\ updated_ids' = IF IsModified(update_result)
                               THEN Append(updated_ids, m_call.curated_articles[m_idx].id)
                               ELSE updated_ids
             /\ m_idx' = m_idx + 1
             /\ UNCHANGED <<m_fault, m_return, mpc>>
       \/ /\ m_fault' = "PyMongoError"
          /\ m_return' = Returned(updated_ids)
          /\ mpc' = "returned"
          /\ UNCHANGED <<db_articles, updated_ids, m_idx>>
    /\ UNCHANGED <<mongo_config, db_failed, db_before, m_call,
                   moveVars, articleVars, batchVars, llmVars, translateVars, driverVars>>

\* the for loop is used up: return updated_ids
ReturnUpdated ==
    /\ mpc = "update_loop"
    /\ m_idx > Len(m_call.curated_articles)
    /\ m_return' = Returned(updated_ids)
    /\ mpc' = "returned"
    /\ UNCHANGED <<mongo_config, db_articles, db_failed, db_before, m_call, m_idx,
                   updated_ids, m_fault, moveVars,
                   articleVars, batchVars, llmVars, translateVars, driverVars>>

NextMongo ==
    \/ GetUnprocessedArticles
    \/ UpdateArticles
    \/ UpdateOne
    \/ ReturnUpdated

SpecMongo == InitMongo /\ [][NextMongo]_vars

-----------------------------------------------------------------------------
(* Claims about MongoHandler (SpecMongo) *)

Fetched == m_call.op = "get_unprocessed_articles" /\ mpc \in {"returned", "raised"}

\* C18 (as claimed): get_unprocessed_articles(limit) returns at most limit
\* articles, each stored with post_processed not true and with the current schema
\* version, newest date_scraped first; when the store holds such an article and
\* the read succeeds, the result is not empty.
C18_FetchesNewestUnprocessed ==
    Fetched =>
        /\ ~m_return.raised
        /\ LET r == m_return.value
           IN /\ Len(r) <= m_call.batch_size
              /\ \A k \in 1..Len(r) :
                    /\ r[k].id \in DOMAIN db_articles
                    /\ db_articles[r[k].id].post_processed # TRUE
                    /\ db_articles[r[k].id].schema_version = SCHEMA_VERSION
              /\ \A k \in 1..(Len(r) - 1) : r[k].date_scraped >= r[k + 1].date_scraped
              /\ (m_fault = "none" /\ Matching(db_articles, SCHEMA_VERSION) # {}) =>
                    r # <<>>

\* C19: when the read from the store fails, get_unprocessed_articles returns an
\* empty list, raises nothing, and both collections are as they were.
C19_ReadFailureReturnsEmpty ==
    (Fetched /\ m_fault = "PyMongoError") =>
        /\ mpc = "returned"
        /\ m_return = Returned(<<>>)
        /\ db_articles = db_before.articles
        /\ db_failed = db_before.failed_articles

C19_Witness ==
    /\ Fetched
    /\ m_fault = "PyMongoError"
    /\ Matching(db_articles, SCHEMA_VERSION) # {}
    /\ m_return = Returned(<<>>)

\* the ids of the list that are stored as documents GlobeArticle accepts
ValidOf(ids) == SelectSeq(ids, LAMBDA id : Validates(db_articles[id]))

\* C39 (as claimed): a stored document that cannot be converted into a
\* GlobeArticle does not block the others: when the filter can be built and the
\* read succeeds, get_unprocessed_articles returns the valid articles among the
\* documents the query selected, in the query's order.
C39_InvalidDocumentDoesNotBlock ==
    (Fetched /\ m_fault = "none" /\ "SCHEMA_VERSION" \in mongo_config) =>
        \E c \in SortedCursors(db_articles, Matching(db_articles, SCHEMA_VERSION)) :
            [k \in 1..Len(m_return.value) |-> m_return.value[k].id]
                = ValidOf(Limit(c, m_call.batch_size))

\* the ids whose stored document differs from what it was when the call began
ModifiedIds ==
    {id \in DOMAIN db_before.articles : db_articles[id] # db_before.articles[id]}

\* C20: update_articles returns exactly the ids of the curated articles whose
\* stored document the update changed: an article whose update changed nothing is
\* not in the result, no id is listed twice, and no id outside the input is
\* returned.
C20_ReturnsExactlyModifiedIds ==
    (m_call.op = "update_articles" /\ mpc = "returned") =>
        /\ ~m_return.raised
        /\ Range(m_return.value) = ModifiedIds
        /\ \A id \in ModifiedIds : CountId([k \in 1..Len(m_return.value) |->
                                              [id |-> m_return.value[k]]], id) = 1
        /\ Range(m_return.value) \subseteq
              {m_call.curated_articles[k].id : k \in 1..Len(m_call.curated_articles)}

C20_Witness ==
    /\ m_call.op = "update_articles"
    /\ mpc = "returned"
    /\ m_fault = "none"
    /\ Len(m_call.curated_articles) = 2
    /\ Len(m_return.value) = 1
    /\ \E k \in 1..2 :
          LET id == m_call.curated_articles[k].id
          IN /\ id \in DOMAIN db_articles
             /\ id \notin Range(m_return.value)
             /\ db_articles[id] = db_before.articles[id]

\* the position of the curated article whose update_one raised (0: none did)
FailedUpdateAt == IF m_fault = "PyMongoError" THEN m_idx ELSE 0

\* C21 (as claimed): a storage failure on one curated article is skipped: no
\* exception escapes update_articles, and every other article of the list that is
\* stored, those after the failing one included, is updated in the store.
C21_UpdateFailureSkipsOneArticle ==
    (m_call.op = "update_articles" /\ mpc \in {"returned", "raised"}) =>
        /\ mpc = "returned"
        /\ \A k \in 1..Len(m_call.curated_articles) :
              LET id == m_call.curated_articles[k].id
              IN (/\ id \in DOMAIN db_articles
                  /\ FailedUpdateAt # 0 =>
                        id # m_call.curated_articles[FailedUpdateAt].id) =>
                    /\ db_articles[id].post_processed
                    /\ db_articles[id].category = m_call.curated_articles[k].category

Count(seq, x) == Cardinality({k \in 1..Len(seq) : seq[k] = x})

\* the stored documents an update_one of the call has reached
UpdatedDocs ==
    IF m_call.op = "update_articles"
    THEN {k \in 1..Len(m_call.curated_articles) :
             /\ k < m_idx
             /\ m_call.curated_articles[k].id \in DOMAIN db_articles}
    ELSE {}

\* C22 (as claimed): after an update the stored keywords are the set union of the
\* keywords stored before and the curated ones, no keyword appearing twice.
C22_KeywordsAreSetUnion ==
    \A k \in UpdatedDocs :
        LET id == m_call.curated_articles[k].id
            kw == db_articles[id].keywords
        IN /\ Range(kw) = Range(db_before.articles[id].keywords)
                            \cup Range(m_call.curated_articles[k].keywords)
           /\ \A x \in Range(kw) : Count(kw, x) = 1

\* C22 (amended): after an update every keyword stored before is still stored, in
\* its place and as often as before, every curated keyword is stored, and a
\* keyword that was not stored before is stored exactly once; an article persisted
\* twice leaves the document as persisting it once does.
C22_KeywordsMergedOnce ==
    \A k \in UpdatedDocs :
        LET id == m_call.curated_articles[k].id
            old == db_before.articles[id].keywords
            kw == db_articles[id].keywords
        IN /\ Range(kw) = Range(old) \cup Range(m_call.curated_articles[k].keywords)
           /\ Len(kw) >= Len(old) /\ SubSeq(kw, 1, Len(old)) = old
           /\ \A x \in Range(kw) \ Range(old) : Count(kw, x) = 1
           /\ db_articles[id] = ApplyUpdate(db_before.articles[id],
                                            m_call.curated_articles[k])

C22_Witness ==
    /\ m_call.op = "update_articles"
    /\ mpc = "returned"
    /\ m_fault = "none"
    /\ Len(m_call.curated_articles) = 2
    /\ m_call.curated_articles[1].id = m_call.curated_articles[2].id
    /\ LET id == m_call.curated_articles[1].id
       IN /\ id \in DOMAIN db_articles
          /\ db_before.articles[id].keywords = <<"scraped">>
          /\ db_articles[id].keywords = <<"scraped", "election">>
          /\ m_return.value = <<id>>

-----------------------------------------------------------------------------
(* database/mongo_handler.py: MongoHandler.move_failed_articles (SpecMove) *)

\* the FailedGlobeArticle the pipeline builds for the article with this id
FailedInput(id) == FailedGlobeArticle(GlobeArticle(id, "cs", "GB"), "Test error")

\* find_one answering None
NoDocument == [none |-> TRUE]

\* self._articles.find_one({"_id": id})
find_one(collection, id) ==
    IF id \in DOMAIN collection THEN collection[id] ELSE NoDocument

\* a test that takes every answer of find_one for a document
IsFound_Always(doc) == TRUE

\* `if article`
IsFound(doc) == doc # NoDocument

\* article["failure_reason"] = failed_article.failure_reason
WithFailureReason(doc, failure_reason) == [failure_reason |-> failure_reason] @@ doc

\* a collection without the document of this _id
Without(collection, id) == [i \in DOMAIN collection \ {id} |-> collection[i]]

\* self._failed_articles.insert_one(article) where no document has this _id: the
\* document is inserted and its _id reported, or (as the unit tests have it) the
\* result carries no inserted_id and nothing was inserted
insert_one(collection, id, doc) ==
    {[collection |-> [i \in DOMAIN collection \cup {id} |->
                         IF i = id THEN doc ELSE collection[i]],
      inserted_id |-> <<id>>],
     [collection |-> collection, inserted_id |-> <<>>]}

\* a test that takes every InsertOneResult for an insertion
IsInserted_Always(insert_result) == TRUE

\* `if result.inserted_id`
IsInserted(insert_result) == insert_result.inserted_id # <<>>

\* self._articles.delete_one({"_id": id})
delete_one(collection, id) ==
    [collection |-> Without(collection, id),
     deleted_count |-> IF id \in DOMAIN collection THEN 1 ELSE 0]

\* a test that takes every DeleteResult for a deletion
IsDeleted_Always(delete_result) == TRUE

\* `if delete_result.deleted_count > 0`
IsDeleted(delete_result) == delete_result.deleted_count > 0

\* the PyMongoError classes a storage call can raise at any time: one that is an
\* OperationFailure (here: not authorized, code 13) and one that is not
StorageErrors == {"OperationFailure", "ConnectionFailure"}

\* the classes whose instances carry the attribute _OperationFailure__code
HasOperationFailureCode(cls) == cls \in {"OperationFailure", "DuplicateKeyError"}

\* e._OperationFailure__code
OperationFailureCode(cls) == IF cls = "DuplicateKeyError" THEN 11000 ELSE 13

\* an except clause that logs every PyMongoError and goes on to the return
ExceptMove_LogOnly(cls) == "return"

\* `except PyMongoError as e` of move_failed_articles: where control goes next
ExceptMove(cls) ==
    IF ~HasOperationFailureCode(cls) THEN "AttributeError"
    ELSE IF OperationFailureCode(cls) = 11000 THEN "delete_original"
    ELSE "return"

\* a storage call of the for loop raises an error of class cls
MoveRaises(cls) ==
    /\ m_fault' = cls
    /\ LET next == ExceptMove(cls)
       IN IF next = "AttributeError"
          THEN /\ mpc' = "raised"
               /\ m_return' = Raised("AttributeError",
                      "'" \o cls \o "' object has no attribute '_OperationFailure__code'")
          ELSE IF next = "delete_original"
          THEN mpc' = "move_except_delete" /\ UNCHANGED m_return
          ELSE mpc' = "returned" /\ m_return' = Returned(moved_ids)
    /\ UNCHANGED <<db_articles, db_failed, m_idx, moved_ids, m_article, m_deleted>>

\* the lists move_failed_articles is called with
FailedLists == SeqsUpTo(1..(MaxDocs + 1), MaxDocs)

\* the collections move_failed_articles may find: each _id of 1..MaxDocs is stored
\* or not, quarantined by an earlier run or not
InitMove ==
    /\ mongo_config = ConfigFields
    /\ db_articles \in UNION {[ids -> {Document("1.1", 1)}] : ids \in SUBSET (1..MaxDocs)}
    /\ db_failed \in UNION {[ids -> {WithFailureReason(Document("1.1", 1), "Earlier error")}] :
                              ids \in SUBSET (1..MaxDocs)}
    /\ db_before = [articles |-> db_articles, failed_articles |-> db_failed]
    /\ m_call = [op |-> "none"]
    /\ m_idx = 0
    /\ updated_ids = <<>>
    /\ moved_ids = <<>>
    /\ m_article = NoDocument
    /\ m_deleted = {}
    /\ m_fault = "none"
    /\ m_return = [kind |-> "pending"]
    /\ mpc = "ready"
    /\ ArticleIdle
    /\ BatchIdle
    /\ LLMIdle
    /\ TranslateIdle
    /\ DriverIdle

MoveFrame == <<mongo_config, db_before, m_call, updated_ids,
               articleVars, batchVars, llmVars, translateVars, driverVars>>

\* the failed_article of the current pass of the for loop
CurrentFailed == m_call.failed_articles[m_idx]

\* move_failed_articles(failed_articles) is entered: moved_ids = []
MoveFailedArticles ==
    /\ mpc = "ready"
    /\ \E ids \in FailedLists :
        m_call' = [op |-> "move_failed_articles",
                   failed_articles |-> [k \in 1..Len(ids) |-> FailedInput(ids[k])]]
    /\ m_idx' = 1
    /\ moved_ids' = <<>>
    /\ mpc' = "move_find"
    /\ UNCHANGED <<mongo_config, db_articles, db_failed, db_before, updated_ids,
                   m_article, m_deleted, m_fault, m_return,
                   articleVars, batchVars, llmVars, translateVars, driverVars>>

\* the find_one of one pass, the test of its answer and, for a document, the
\* assignment of failure_reason
FindOne ==
    /\ mpc = "move_find"
    /\ m_idx <= Len(m_call.failed_articles)
    /\ \/ \E cls \in StorageErrors : MoveRaises(cls)
       \/ LET doc == find_one(db_articles, CurrentFailed.id)
          IN /\ IF IsFound(doc)
                THEN /\ m_article' = WithFailureReason(doc, CurrentFailed.failure_reason)
                     /\ mpc' = "move_insert"
                     /\ UNCHANGED m_idx
                ELSE /\ m_idx' = m_idx + 1
                     /\ UNCHANGED <<m_article, mpc>>
             /\ UNCHANGED <<db_articles, db_failed, moved_ids, m_deleted, m_fault, m_return>>
    /\ UNCHANGED MoveFrame

\* the insert_one of one pass and the test of its result; a document whose _id is
\* already in failed_articles makes insert_one raise DuplicateKeyError
InsertOne ==
    /\ mpc = "move_insert"
    /\ \/ \E cls \in StorageErrors : MoveRaises(cls)
       \/ /\ CurrentFailed.id \in DOMAIN db_failed
          /\ MoveRaises("DuplicateKeyError")
       \/ /\ CurrentFailed.id \notin DOMAIN db_failed
          /\ \E insert_result \in insert_one(db_failed, CurrentFailed.id, m_article) :
                /\ db_failed' = insert_result.collection
                /\ IF IsInserted(insert_result)
                   THEN mpc' = "move_delete" /\ UNCHANGED m_idx
                   ELSE mpc' = "move_find" /\ m_idx' = m_idx + 1
          /\ UNCHANGED <<db_articles, moved_ids, m_article, m_deleted, m_fault, m_return>>
    /\ UNCHANGED MoveFrame

\* the delete_one of one pass and the test of its result; the document may have
\* been removed by another client since find_one read it
DeleteOne ==
    /\ mpc = "move_delete"
    /\ \/ \E cls \in StorageErrors : MoveRaises(cls)
       \/ \E found \in {db_articles, Without(db_articles, CurrentFailed.id)} :
            LET delete_result == delete_one(found, CurrentFailed.id)
            IN /\ db_articles' = delete_result.collection
               /\ m_deleted' = IF delete_result.deleted_count > 0
                               THEN m_deleted \cup {CurrentFailed.id} ELSE m_deleted
               /\ moved_ids' = IF IsDeleted(delete_result)
                               THEN Append(moved_ids, CurrentFailed.id) ELSE moved_ids
               /\ m_idx' = m_idx + 1
               /\ mpc' = "move_find"
               /\ UNCHANGED <<db_failed, m_article, m_fault, m_return>>
    /\ UNCHANGED MoveFrame

\* the delete_one of the except clause (duplicate key): it is outside the try, so
\* an error it raises leaves move_failed_articles
ExceptDeleteOne ==
    /\ mpc = "move_except_delete"
    /\ \/ \E cls \in StorageErrors :
            /\ mpc' = "raised"
            /\ m_return' = Raised(cls, "delete failed")
            /\ UNCHANGED <<db_articles, m_deleted>>
       \/ LET delete_result == delete_one(db_articles, CurrentFailed.id)
          IN /\ db_articles' = delete_result.collection
             /\ m_deleted' = IF delete_result.deleted_count > 0
                             THEN m_deleted \cup {CurrentFailed.id} ELSE m_deleted
             /\ mpc' = "returned"
             /\ m_return' = Returned(moved_ids)
    /\ UNCHANGED <<db_failed, m_idx, moved_ids, m_article, m_fault>>
    /\ UNCHANGED MoveFrame

\* the for loop is used up: return moved_ids
ReturnMoved ==
    /\ mpc = "move_find"
    /\ m_idx > Len(m_call.failed_articles)
    /\ m_return' = Returned(moved_ids)
    /\ mpc' = "returned"
    /\ UNCHANGED <<db_articles, db_failed, m_idx, moved_ids, m_article, m_deleted, m_fault>>
    /\ UNCHANGED MoveFrame

NextMove ==
    \/ MoveFailedArticles
    \/ FindOne
    \/ InsertOne
    \/ DeleteOne
    \/ ExceptDeleteOne
    \/ ReturnMoved

SpecMove == InitMove /\ [][NextMove]_vars

-----------------------------------------------------------------------------
(* Claims about move_failed_articles (SpecMove) *)

Moving == m_call.op = "move_failed_articles"
MoveEnded == Moving /\ mpc \in {"returned", "raised"}

\* the _ids of the input list
FailedIds == {m_call.failed_articles[k].id : k \in 1..Len(m_call.failed_articles)}

\* the _ids the call has inserted into failed_articles
InsertedIds == DOMAIN db_failed \ DOMAIN db_before.failed_articles

\* every article that was in the primary store is in the primary store or in
\* quarantine
InPrimaryOrQuarantine ==
    \A id \in DOMAIN db_before.articles :
        id \in DOMAIN db_articles \/ id \in DOMAIN db_failed

\* a step that removes a document from the primary store finds it in quarantine
DeletesOnlyQuarantined ==
    \A id \in DOMAIN db_articles :
        id \notin DOMAIN db_articles' => id \in DOMAIN db_failed

\* C23: in move_failed_articles the primary copy of an article is deleted only
\* when the article is in the quarantine collection (just inserted, or quarantined
\* before), so in every reachable state, also after a storage failure, an article
\* that was in the primary store is in the primary store or in quarantine.
C23_NeverLostFromBoth == [](InPrimaryOrQuarantine) /\ [][DeletesOnlyQuarantined]_vars

C23_Witness ==
    /\ MoveEnded
    /\ m_fault # "none"
    /\ \E id \in DOMAIN db_before.articles :
          /\ id \notin DOMAIN db_articles
          /\ id \in InsertedIds

\* the delete_one of the except clause itself raised a storage error
ExceptDeleteFailed == m_return.raised /\ m_return.cls \in StorageErrors

\* C24: when the quarantine insertion meets a duplicate key, the call still
\* deletes the primary copy of that article, leaves the quarantined copy as it
\* was, and returns normally: the duplicate-key error is not propagated.
C24_DuplicateKeyDeletesPrimary ==
    (MoveEnded /\ m_fault = "DuplicateKeyError" /\ ~ExceptDeleteFailed) =>
        /\ mpc = "returned"
        /\ ~m_return.raised
        /\ CurrentFailed.id \notin DOMAIN db_articles
        /\ CurrentFailed.id \in DOMAIN db_before.articles
        /\ db_failed[CurrentFailed.id] = db_before.failed_articles[CurrentFailed.id]

C24_Witness ==
    /\ MoveEnded
    /\ m_fault = "DuplicateKeyError"
    /\ mpc = "returned"
    /\ CurrentFailed.id \in DOMAIN db_before.articles
    /\ CurrentFailed.id \notin DOMAIN db_articles
    /\ CurrentFailed.id \in DOMAIN db_before.failed_articles

\* the pass of the for loop for an article that find_one does not find
SkipsMissingArticle ==
    (/\ mpc = "move_find"
     /\ m_idx <= Len(m_call.failed_articles)
     /\ CurrentFailed.id \notin DOMAIN db_articles
     /\ m_fault' = "none") =>
        /\ mpc' = "move_find"
        /\ m_idx' = m_idx + 1
        /\ UNCHANGED <<db_articles, db_failed, moved_ids, m_deleted, m_return>>

\* an article that never was in the primary store is not moved
MissingNeverMoved ==
    Moving =>
        \A id \in FailedIds \ DOMAIN db_before.articles :
            /\ id \notin Range(moved_ids)
            /\ id \notin InsertedIds
            /\ id \notin m_deleted

\* C25: a failed article whose document is not in the primary store is skipped:
\* nothing is inserted into quarantine, nothing is deleted, its id is not in the
\* returned list, no error is raised, and the loop goes on to the next article.
C25_MissingArticleSkipped == [](MissingNeverMoved) /\ [][SkipsMissingArticle]_vars

C25_Witness ==
    /\ Moving
    /\ mpc = "returned"
    /\ m_fault = "none"
    /\ Len(m_call.failed_articles) = 2
    /\ m_call.failed_articles[1].id \notin DOMAIN db_before.articles
    /\ m_call.failed_articles[1].id \notin DOMAIN db_failed
    /\ m_return.value = <<m_call.failed_articles[2].id>>

\* C26: move_failed_articles returns exactly the ids of the articles the call both
\* inserted into quarantine and deleted from the primary store, each once: an
\* article whose insert reported no inserted id, or whose delete removed nothing,
\* is not in the list.
C26_ReturnsExactlyMovedIds ==
    (Moving /\ mpc = "returned") =>
        /\ ~m_return.raised
        /\ Range(m_return.value) = InsertedIds \cap m_deleted
        /\ \A id \in Range(m_return.value) : Count(m_return.value, id) = 1

C26_Witness ==
    /\ Moving
    /\ mpc = "returned"
    /\ Len(m_return.value) = 1
    /\ \E id \in InsertedIds : id \notin m_deleted /\ id \notin Range(m_return.value)

\* C27 (as claimed): whichever storage operation of move_failed_articles fails
\* and whatever kind of storage error it is, the call returns a list and raises
\* nothing.
C27_MoveNeverRaises == Moving => mpc # "raised"

\* C28 (as claimed): a failure on one article, the duplicate-key condition
\* included, affects only that article: every later article of the list that is
\* in the primary store is still inserted into quarantine and deleted from the
\* primary store in the same call.
C28_MoveFailureAffectsOneArticle ==
    (MoveEnded /\ m_fault # "none") =>
        \A k \in (m_idx + 1)..Len(m_call.failed_articles) :
            LET id == m_call.failed_articles[k].id
            IN (id \in DOMAIN db_before.articles /\ id # CurrentFailed.id) =>
                  /\ id \notin DOMAIN db_articles
                  /\ id \in DOMAIN db_failed

-----------------------------------------------------------------------------
(* __init__.py: GlobeNewsPostProcessor.process_pending_articles (SpecDriver) *)

\* the documents a run may find in the articles collection: unprocessed, of the
\* current or of an older schema version
DriverDocs == {Document("1.1", 1), Document("1.0", 1)}

\* the _ids of a list of articles
IdsOf(list) == {list[k].id : k \in 1..Len(list)}

\* the entries of a list at the positions with this outcome, in the list's order
Positions(outcome, kind) ==
    SelectSeq([k \in 1..Len(outcome) |-> k], LAMBDA k : outcome[k] = kind)

\* every article of the list is in the ids the storage call has returned
AllReported(list, ids) == IdsOf(list) \subseteq Range(ids)

InitDriver ==
    /\ mongo_config \in Configs
    /\ db_articles \in UNION {[ids -> DriverDocs] : ids \in SUBSET (1..MaxDocs)}
    /\ db_failed \in UNION {[ids -> {WithFailureReason(Document("1.1", 1), "Earlier error")}] :
                              ids \in SUBSET {1}}
    /\ db_before = [articles |-> db_articles, failed_articles |-> db_failed]
    /\ m_call = [op |-> "none"]
    /\ m_idx = 0
    /\ updated_ids = <<>>
    /\ moved_ids = <<>>
    /\ m_article = NoDocument
    /\ m_deleted = {}
    /\ m_fault = "none"
    /\ m_return = [kind |-> "pending"]
    /\ mpc = "ready"
    /\ d_batch_size \in 1..MaxDocs
    /\ d_articles = <<>>
    /\ d_curated = <<>>
    /\ d_failed = <<>>
    /\ d_seen = {}
    /\ d_again = {}
    /\ d_clean = TRUE
    /\ dpc = "fetch"
    /\ ArticleIdle
    /\ BatchIdle
    /\ LLMIdle
    /\ TranslateIdle

DriverFrame == <<mongo_config, d_batch_size, articleVars, batchVars, llmVars, translateVars>>

\* `while articles := self._fetch_article_batch(batch_size)`: one fetch and the
\* test of its result; an empty list ends the loop and the method
FetchArticleBatch ==
    /\ dpc = "fetch"
    /\ get_unprocessed_articles(d_batch_size)
    /\ d_articles' = m_return'.value
    /\ d_seen' = d_seen \cup IdsOf(d_articles')
    /\ d_again' = d_again \cup (IdsOf(d_articles') \cap d_seen)
    /\ d_clean' = (d_clean /\ m_fault' = "none")
    /\ dpc' = IF d_articles' = <<>> THEN "returned" ELSE "process"
    /\ UNCHANGED <<db_articles, db_failed, db_before, m_idx, updated_ids, moveVars,
                   d_curated, d_failed>>
    /\ UNCHANGED DriverFrame

\* _process_batch(articles): process_article answers a tuple or a
\* FailedGlobeArticle for each article, appended to one of the two lists
ProcessBatch ==
    /\ dpc = "process"
    /\ \E outcome \in [1..Len(d_articles) -> {"curated", "failed"}] :
        LET ok == Positions(outcome, "curated")
            ko == Positions(outcome, "failed")
        IN /\ d_curated' = [j \in 1..Len(ok) |-> CuratedInput(d_articles[ok[j]].id)]
           /\ d_failed' = [j \in 1..Len(ko) |-> FailedInput(d_articles[ko[j]].id)]
    /\ dpc' = "update"
    /\ UNCHANGED <<mongoVars, d_articles, d_seen, d_again, d_clean>>
    /\ UNCHANGED <<d_batch_size, articleVars, batchVars, llmVars, translateVars>>

\* _update_articles: self._mongo_handler.update_articles(curated_articles) is
\* entered
CallUpdateArticles ==
    /\ dpc = "update"
    /\ m_call' = [op |-> "update_articles", curated_articles |-> d_curated]
    /\ m_idx' = 1
    /\ updated_ids' = <<>>
    /\ m_fault' = "none"
    /\ m_return' = [kind |-> "pending"]
    /\ db_before' = [articles |-> db_articles, failed_articles |-> db_failed]
    /\ mpc' = "update_loop"
    /\ dpc' = "updating"
    /\ UNCHANGED <<db_articles, db_failed, moveVars,
                   d_articles, d_curated, d_failed, d_seen, d_again, d_clean>>
    /\ UNCHANGED DriverFrame

\* update_articles has returned successful_ids:
\* self._mongo_handler.move_failed_articles(failed_articles) is entered
CallMoveFailedArticles ==
    /\ dpc = "updating"
    /\ mpc = "returned"
    /\ d_clean' = (d_clean /\ m_fault = "none" /\ AllReported(d_curated, m_return.value))
    /\ m_call' = [op |-> "move_failed_articles", failed_articles |-> d_failed]
    /\ m_idx' = 1
    /\ moved_ids' = <<>>
    /\ m_article' = NoDocument
    /\ m_deleted' = {}
    /\ m_fault' = "none"
    /\ m_return' = [kind |-> "pending"]
    /\ db_before' = [articles |-> db_articles, failed_articles |-> db_failed]
    /\ mpc' = "move_find"
    /\ dpc' = "moving"
    /\ UNCHANGED <<db_articles, db_failed, updated_ids,
                   d_articles, d_curated, d_failed, d_seen, d_again>>
    /\ UNCHANGED DriverFrame

\* move_failed_articles has ended: the log lines of _update_articles and of the
\* loop body, then the next fetch; an exception of the call leaves the method
EndBatch ==
    /\ dpc = "moving"
    /\ mpc \in {"returned", "raised"}
    /\ IF mpc = "raised"
       THEN /\ dpc' = "raised"
            /\ d_clean' = FALSE
       ELSE /\ dpc' = "fetch"
            /\ d_clean' = (d_clean /\ m_fault = "none"
                                   /\ AllReported(d_failed, m_return.value))
    /\ UNCHANGED <<mongoVars, d_articles, d_curated, d_failed, d_seen, d_again>>
    /\ UNCHANGED <<d_batch_size, articleVars, batchVars, llmVars, translateVars>>

NextDriver ==
    \/ FetchArticleBatch
    \/ ProcessBatch
    \/ CallUpdateArticles
    \/ UpdateOne
    \/ ReturnUpdated
    \/ CallMoveFailedArticles
    \/ FindOne
    \/ InsertOne
    \/ DeleteOne
    \/ ExceptDeleteOne
    \/ ReturnMoved
    \/ EndBatch

SpecDriver == InitDriver /\ [][NextDriver]_vars

-----------------------------------------------------------------------------
(* Claims about process_pending_articles (SpecDriver) *)

\* C29 (as claimed): process_pending_articles returns only after a fetch has
\* returned an empty batch, and when every fetch, persist and move operation of
\* the run has succeeded it ends with no unprocessed article of the current
\* schema version in the primary store: every article a fetch returned is marked
\* post_processed there or has been moved to quarantine.
C29_RunDrainsPrimaryStore ==
    dpc = "returned" =>
        /\ d_articles = <<>>
        /\ d_clean =>
              /\ Matching(db_articles, SCHEMA_VERSION) = {}
              /\ \A id \in d_seen :
                    \/ id \in DOMAIN db_articles /\ db_articles[id].post_processed = TRUE
                    \/ id \notin DOMAIN db_articles /\ id \in DOMAIN db_failed

\* C38 (as claimed): within one run of process_pending_articles, whatever the
\* store does, persist and move failures included, no article is submitted to
\* enrichment twice: an article a fetch has returned is never returned again by
\* a later fetch of the run.
C38_NoArticleFetchedTwice == d_again = {}

====
